---- MODULE Spec2Model ----
(***************************************************************************)
(* Connection/protocol multiplexing layer and node-level dial loop of      *)
(* litep2p.                                                                *)
(*                                                                         *)
(*   Spec      the Per-Connection Hub (ProtocolSet) and the Per-Protocol   *)
(*             View (TransportService) of src/protocol/protocol_set.rs     *)
(*   SpecNode  the Node Coordinator (Litep2p) of src/lib.rs                *)
(*   SpecStop  the Hub and View of one connection, with protocol tasks     *)
(*             that may end                                                *)
(*   SpecNew   the Node Coordinator from Litep2p::new on                   *)
(*   SpecPair  a node with one TCP transport that dials and is dialled     *)
(*   SpecDepth the Hub and View with a command channel deeper than the     *)
(*             event channels, or a Coordinator with one transport         *)
(*   SpecExit  the Node Coordinator with transport tasks that may end      *)
(*   SpecWait  the Hub and View of one connection with the shortest        *)
(*             channels and four substream ids                             *)
(*   SpecName  the conversion of a ProtocolName of src/protocol/mod.rs to  *)
(*             a string                                                    *)
(***************************************************************************)
EXTENDS Integers, Sequences, FiniteSets, TLC

(***************************************************************************)
(* Bounds of the model.                                                    *)
(***************************************************************************)
\* number of connections (ProtocolSet instances) ever created
MaxConnections == 2
\* the shared substream-id counter is not advanced past this value
MaxSubstreamId == 3
\* depth of a protocol's event channel (DEFAULT_CHANNEL_SIZE in the source)
EventChannelBound == 2
\* depth of a connection's command channel (256 in the source)
CommandChannelBound == 2

Protocols == {"ping", "identify"}
\* names a negotiation may hand to the Hub: the registered ones and one that is not
Names == Protocols \cup {"unregistered"}
Peers == {"peerA", "peerB"}
Conns == 1..MaxConnections

\* The runs explored: a wide one, with every connection and the shortest channels,
\* and a deep one, with one connection, every substream id and the longest channels.
Scenarios ==
    { [conns |-> MaxConnections, ids |-> 1, events |-> 1, commands |-> 1],
      [conns |-> 1, ids |-> MaxSubstreamId, events |-> EventChannelBound,
       commands |-> CommandChannelBound] }

VARIABLES
    limits,             \* the scenario of the run: see Scenarios
    order,              \* iteration order of the registered protocols' map
    connections,        \* TransportService::connections, per protocol
    evq,                \* per protocol: the channel behind TransportService::rx
    viewpc,             \* per protocol: where the protocol task stands
    hub,                \* per connection: the ProtocolSet and its task
    cmdq,               \* per connection: the channel behind ProtocolSet::rx
    mgr_sent,           \* per connection: what went out on ProtocolSet::mgr_tx
    next_substream_id,  \* the shared Arc<AtomicUsize>
    issued,             \* every SubstreamId handed out and to whom, in allocation order
    stopped,            \* protocols whose task has ended and dropped its TransportService
    notified,           \* per connection and protocol: the ConnectionEstablished and
                        \* ConnectionClosed events the ProtocolSet has sent it, in order
    origin,             \* per protocol: the connection each event of evq came from
    last,               \* the call that made the latest change of state, and its result
    name_fmt            \* the conversion of a ProtocolName to a string that is under way

muxvars == <<limits, order, connections, evq, viewpc, hub, cmdq, mgr_sent, next_substream_id,
             issued, stopped, notified, origin, last>>

hubvars == <<muxvars, name_fmt>>

VARIABLES
    transports,            \* TransportContext::transports: the configured transports
    listen_addresses,      \* Litep2p::listen_addresses; empty while there is no node
    chan,                  \* per transport: the channel behind its command Sender
    connection_id,         \* TransportContext::connection_id
    pending_connections,   \* Litep2p::pending_connections
    pending_dns_resolves,  \* Litep2p::pending_dns_resolves: the addresses being resolved
    rx,                    \* the channel behind Litep2p::rx
    established,           \* per transport: connections it reported and has not closed
    inbound,               \* number of connections the transports have accepted
    alive,                 \* the transports whose task runs: it holds the Receiver of
                           \* its commands and a Sender of Litep2p::rx
    connects,              \* number of calls of connect so far
    dials,                 \* every Dial command sent, in order, with its channel
    dns_origin,            \* ConnectionId of a dial made after a resolution -> address given to connect
    nlast                  \* the latest call of the coordinator, with its result

nodevars == <<transports, listen_addresses, alive, chan, connection_id, pending_connections, pending_dns_resolves,
              rx, established, inbound, connects, dials, dns_origin, nlast>>

vars == <<hubvars, nodevars>>

(***************************************************************************)
(* Values.                                                                 *)
(***************************************************************************)
NoConnection == [kind |-> "None", conn |-> 0]
Active(c) == [kind |-> "Active", conn |-> c]
Inactive(c) == [kind |-> "Inactive", conn |-> c]

\* the remote address of connection c
AddressOf(c) == c

ConnectionEstablished(peer, address, sender) ==
    [type |-> "ConnectionEstablished", peer |-> peer, address |-> address, sender |-> sender]
ConnectionClosed(peer) ==
    [type |-> "ConnectionClosed", peer |-> peer]
SubstreamOpened(peer, protocol, substream) ==
    [type |-> "SubstreamOpened", peer |-> peer, protocol |-> protocol, substream |-> substream]
SubstreamOpenFailure(substream) ==
    [type |-> "SubstreamOpenFailure", substream |-> substream]

OpenSubstreamCmd(protocol, substream_id) ==
    [protocol |-> protocol, substream_id |-> substream_id]
NoCommand == [protocol |-> "none", substream_id |-> -1]

Idle == [st |-> "idle"]
Sending(peer, c, cmd, upgraded) ==
    [st |-> "sending", peer |-> peer, conn |-> c, cmd |-> cmd, upgraded |-> upgraded]

NoSend == [to |-> "nobody"]
NoHub == [st |-> "none", peer |-> "peerA", tx |-> "Inactive", todo |-> <<>>,
          cur |-> NoCommand, out |-> NoSend, none |-> FALSE]

\* The peers are interchangeable: the first connection goes to peerA, the next to
\* the same peer or to another one.
FirstPeers(c) == IF c = 1 THEN {"peerA"} ELSE Peers

\* The registered protocols are interchangeable too: one iteration order of the
\* `protocols` map stands for both.
Orders == {<<"ping", "identify">>}

(***************************************************************************)
(* Handles of a connection's command channel.                              *)
(***************************************************************************)
\* a count of handles that forgets the ones held by the views
HasStrongInHubOnly(c) == hub[c].tx = "Active"

\* some Sender<ProtocolCommand> of connection c is alive
HasStrong(c) ==
    \/ hub[c].tx = "Active"
    \/ \E p \in Protocols : \E i \in 1..Len(evq[p]) :
          /\ evq[p][i].type = "ConnectionEstablished"
          /\ evq[p][i].sender = c
    \/ \E p \in Protocols, peer \in Peers : connections[p][peer] = Active(c)
    \/ \E p \in Protocols :
          /\ viewpc[p].st = "sending"
          /\ viewpc[p].conn = c
          /\ viewpc[p].upgraded

\* an upgrade that succeeds on a channel without senders
UpgradeAlways(c) == TRUE

\* WeakSender::upgrade
Upgrade(c) == HasStrong(c)

\* the Receiver<ProtocolCommand> of connection c is gone
RxDropped(c) == hub[c].st = "dropped"

\* a disconnect that forgets the peer instead of keeping a weak handle
Forgotten(entry) == NoConnection

\* Sender::downgrade in disconnect
Downgraded(entry) ==
    IF entry.kind = "Active" THEN Inactive(entry.conn) ELSE entry

\* a counter that is read but not advanced
FetchSame(n) == n

\* AtomicUsize::fetch_add(1)
FetchAdd(n) == n + 1

\* `last` is the latest call that changed the state, with its result.
\* What it keeps of a call of a view:
ViewCall(op, was, res) == [op |-> op, was |-> was, res |-> res]
\* what `last` keeps of a step of a connection task
HubCall(op, res) == [op |-> op, was |-> "", res |-> res]
\* and of the steps whose result no property reads
Other == HubCall("other", "Done")

\* no ProtocolName is being converted
NoFmt == [caller |-> "none", name |-> "", frames |-> 0, out |-> "none"]

\* ProtocolSet and TransportService before the first connection
HubInit ==
    /\ name_fmt = NoFmt
    /\ order \in Orders
    /\ connections = [p \in Protocols |-> [peer \in Peers |-> NoConnection]]
    /\ evq = [p \in Protocols |-> <<>>]
    /\ viewpc = [p \in Protocols |-> Idle]
    /\ hub = [c \in Conns |-> NoHub]
    /\ cmdq = [c \in Conns |-> <<>>]
    /\ mgr_sent = [c \in Conns |-> <<>>]
    /\ next_substream_id = 0
    /\ issued = <<>>
    /\ stopped = {}
    /\ notified = [c \in Conns |-> [p \in Protocols |-> <<>>]]
    /\ origin = [p \in Protocols |-> <<>>]
    /\ last = Other

(***************************************************************************)
(* Per-Protocol View: TransportService.                                    *)
(***************************************************************************)
disconnect(p, peer) ==
    /\ UNCHANGED <<nodevars, name_fmt, stopped, notified, origin>>
    /\ p \notin stopped
    /\ viewpc[p].st = "idle"
    /\ connections' = [connections EXCEPT ![p][peer] = Downgraded(@)]
    /\ last' = IF connections[p][peer].kind = "Active"
               THEN ViewCall("disconnect", "Active", "Done")
               ELSE last
    /\ UNCHANGED <<limits, order, evq, viewpc, hub, cmdq, mgr_sent, next_substream_id, issued>>

\* a send that leaves the entry as it found it
SendCommandWithoutPromotion(p, peer, c, cmd, upgraded) ==
    /\ connections' = connections
    /\ viewpc' = [viewpc EXCEPT ![p] = Idle]
    /\ IF RxDropped(c)
       THEN /\ cmdq' = cmdq
            /\ last' = ViewCall("open_substream",
                                IF upgraded THEN "Inactive" ELSE "Active", "ChannelClosed")
       ELSE /\ cmdq' = [cmdq EXCEPT ![c] = Append(@, cmd)]
            /\ last' = ViewCall("open_substream",
                                IF upgraded THEN "Inactive" ELSE "Active", "Ok")

\* a send that returns Ok without queuing the command
SendCommandLost(p, peer, c, cmd, upgraded) ==
    /\ connections' = [connections EXCEPT ![p][peer] = IF upgraded THEN Active(c) ELSE @]
    /\ viewpc' = [viewpc EXCEPT ![p] = Idle]
    /\ cmdq' = cmdq
    /\ last' = ViewCall("open_substream", IF upgraded THEN "Inactive" ELSE "Active",
                        IF RxDropped(c) THEN "ChannelClosed" ELSE "Ok")

\* the send of open_substream, once the command channel has room or is closed
SendCommand(p, peer, c, cmd, upgraded) ==
    /\ connections' = [connections EXCEPT ![p][peer] = IF upgraded THEN Active(c) ELSE @]
    /\ viewpc' = [viewpc EXCEPT ![p] = Idle]
    /\ IF RxDropped(c)
       THEN /\ cmdq' = cmdq
            /\ last' = ViewCall("open_substream",
                                IF upgraded THEN "Inactive" ELSE "Active", "ChannelClosed")
       ELSE /\ cmdq' = [cmdq EXCEPT ![c] = Append(@, cmd)]
            /\ last' = ViewCall("open_substream",
                                IF upgraded THEN "Inactive" ELSE "Active", "Ok")

open_substream(p, peer) ==
    /\ UNCHANGED <<nodevars, name_fmt, stopped, notified, origin>>
    /\ p \notin stopped
    /\ viewpc[p].st = "idle"
    /\ LET connection == connections[p][peer]
           c == connection.conn
           substream_id == next_substream_id
           cmd == OpenSubstreamCmd(p, substream_id)
       IN
       IF connection.kind = "None"
       THEN \* Err(PeerDoesntExist), before an id is taken
            /\ last' = ViewCall("open_substream", "None", "PeerDoesntExist")
            /\ UNCHANGED <<limits, order, connections, evq, viewpc, hub, cmdq, mgr_sent,
                           next_substream_id, issued>>
       ELSE /\ next_substream_id < limits.ids
            /\ next_substream_id' = FetchAdd(next_substream_id)
            /\ issued' = Append(issued, [id |-> substream_id, by |-> p])
            /\ UNCHANGED <<limits, order, evq, hub, mgr_sent>>
            /\ IF connection.kind = "Inactive" /\ ~Upgrade(c)
               THEN /\ last' = ViewCall("open_substream", "Inactive", "Disconnected")
                    /\ UNCHANGED <<connections, viewpc, cmdq>>
               ELSE IF ~RxDropped(c) /\ Len(cmdq[c]) >= limits.commands
               THEN \* the channel is full: the task is suspended in send
                    /\ viewpc' = [viewpc EXCEPT ![p] =
                                    Sending(peer, c, cmd, connection.kind = "Inactive")]
                    /\ last' = ViewCall("open_substream", connection.kind, "Suspended")
                    /\ UNCHANGED <<connections, cmdq>>
               ELSE SendCommand(p, peer, c, cmd, connection.kind = "Inactive")

\* a suspended open_substream completes
open_substream_resume(p) ==
    /\ UNCHANGED <<nodevars, name_fmt, stopped, notified, origin>>
    /\ p \notin stopped
    /\ viewpc[p].st = "sending"
    /\ RxDropped(viewpc[p].conn) \/ Len(cmdq[viewpc[p].conn]) < limits.commands
    /\ SendCommand(p, viewpc[p].peer, viewpc[p].conn, viewpc[p].cmd, viewpc[p].upgraded)
    /\ UNCHANGED <<limits, order, evq, hub, mgr_sent, next_substream_id, issued>>

\* a channel that hands out the newest message first
RecvNewest(q) == q[Len(q)]

\* Receiver::recv on a channel holding q: the oldest message
Recv(q) == Head(q)

\* a bookkeeping that keeps the entry of a closed connection
BookkeepingWithoutRemoval(entries, event) ==
    IF event.type = "ConnectionEstablished"
    THEN [entries EXCEPT ![event.peer] = Active(event.sender)]
    ELSE entries

\* what next_event does to `connections` for the event it received: insert Active on
\* ConnectionEstablished, remove on ConnectionClosed
Bookkeeping(entries, event) ==
    IF event.type = "ConnectionEstablished"
    THEN [entries EXCEPT ![event.peer] = Active(event.sender)]
    ELSE IF event.type = "ConnectionClosed"
    THEN [entries EXCEPT ![event.peer] = NoConnection]
    ELSE entries

\* TransportService::next_event
view_next_event(p) ==
    /\ UNCHANGED <<nodevars, name_fmt, stopped, notified>>
    /\ p \notin stopped
    /\ viewpc[p].st = "idle"
    /\ evq[p] # <<>>
    /\ LET event == Recv(evq[p]) IN
       /\ evq' = [evq EXCEPT ![p] = Tail(@)]
       /\ origin' = [origin EXCEPT ![p] = Tail(@)]
       /\ connections' = [connections EXCEPT ![p] = Bookkeeping(@, event)]
       /\ last' = ViewCall("view_next_event", "", event.type)
    /\ UNCHANGED <<limits, order, viewpc, hub, cmdq, mgr_sent, next_substream_id, issued>>

(***************************************************************************)
(* Per-Connection Hub: ProtocolSet.                                        *)
(***************************************************************************)
\* ProtocolSet::new, for a connection to `peer`
new_protocol_set(c, peer) ==
    /\ UNCHANGED <<nodevars, name_fmt, stopped, notified, origin>>
    /\ hub[c].st = "none"
    /\ c <= limits.conns
    /\ IF c = 1 THEN TRUE ELSE hub[c - 1].st # "none"
    /\ hub' = [hub EXCEPT ![c] = [st |-> "new", peer |-> peer, tx |-> "Active",
                                  todo |-> order, cur |-> NoCommand,
                                  out |-> NoSend, none |-> FALSE]]
    /\ last' = Other
    /\ UNCHANGED <<limits, order, connections, evq, viewpc, cmdq, mgr_sent, next_substream_id,
                   issued>>

\* a ProtocolSet that keeps its strong handle after the broadcast
AfterBroadcastStillActive(h) == [h EXCEPT !.todo = <<>>, !.st = "established"]

\* the ProtocolSet once every protocol has been sent ConnectionEstablished: its own
\* handle is downgraded
AfterBroadcast(h) == [h EXCEPT !.todo = <<>>, !.tx = "Inactive", !.st = "established"]

\* report_connection_established: the send to the next protocol of the loop
established_send(c) ==
    /\ UNCHANGED <<nodevars, name_fmt, stopped>>
    /\ hub[c].st = "new"
    /\ hub[c].tx = "Active"
    /\ LET p == Head(hub[c].todo)
           event == ConnectionEstablished(hub[c].peer, AddressOf(c), c)
       IN
       IF p \in stopped
       THEN \* the receiver is gone: `?` returns the error of the send
            /\ hub' = [hub EXCEPT ![c].st = "failed"]
            /\ last' = HubCall("report_connection_established", "ChannelClosed")
            /\ UNCHANGED <<evq, notified, origin>>
       ELSE /\ Len(evq[p]) < limits.events
            /\ evq' = [evq EXCEPT ![p] = Append(@, event)]
            /\ notified' = [notified EXCEPT ![c][p] = Append(@, event)]
            /\ origin' = [origin EXCEPT ![p] = Append(@, c)]
            /\ hub' = [hub EXCEPT ![c] =
                         IF Len(@.todo) > 1
                         THEN [@ EXCEPT !.todo = Tail(@)]
                         ELSE AfterBroadcast(@)]
            /\ last' = Other
    /\ UNCHANGED <<limits, order, connections, viewpc, cmdq, mgr_sent, next_substream_id, issued>>

\* report_connection_established: the send to the manager, which returns Ok
established_mgr(c) ==
    /\ UNCHANGED <<nodevars, name_fmt, stopped, notified, origin>>
    /\ hub[c].st = "established"
    /\ mgr_sent' = [mgr_sent EXCEPT ![c] =
                      Append(@, [type |-> "ConnectionEstablished", peer |-> hub[c].peer,
                                 address |-> AddressOf(c)])]
    /\ hub' = [hub EXCEPT ![c].st = "open"]
    /\ last' = HubCall("report_connection_established", "Ok")
    /\ UNCHANGED <<limits, order, connections, evq, viewpc, cmdq, next_substream_id, issued>>

\* report_connection_closed: the send to the next protocol of the loop
closed_send(c) ==
    /\ UNCHANGED <<nodevars, name_fmt, stopped>>
    /\ hub[c].st \in {"open", "closing"}
    /\ LET todo == IF hub[c].st = "open" THEN order ELSE hub[c].todo
           p == Head(todo)
           event == ConnectionClosed(hub[c].peer)
       IN
       IF p \in stopped
       THEN \* the receiver is gone: `?` returns the error of the send
            /\ hub' = [hub EXCEPT ![c].todo = todo, ![c].st = "failed"]
            /\ last' = HubCall("report_connection_closed", "ChannelClosed")
            /\ UNCHANGED <<evq, notified, origin>>
       ELSE /\ Len(evq[p]) < limits.events
            /\ evq' = [evq EXCEPT ![p] = Append(@, event)]
            /\ notified' = [notified EXCEPT ![c][p] = Append(@, event)]
            /\ origin' = [origin EXCEPT ![p] = Append(@, c)]
            /\ hub' = [hub EXCEPT ![c] =
                         IF Len(todo) > 1
                         THEN [@ EXCEPT !.todo = Tail(todo), !.st = "closing"]
                         ELSE [@ EXCEPT !.todo = <<>>, !.st = "closed_mgr"]]
            /\ last' = Other
    /\ UNCHANGED <<limits, order, connections, viewpc, cmdq, mgr_sent, next_substream_id, issued>>

\* report_connection_closed: the send to the manager, which returns Ok
closed_mgr(c) ==
    /\ UNCHANGED <<nodevars, name_fmt, stopped, notified, origin>>
    /\ hub[c].st = "closed_mgr"
    /\ mgr_sent' = [mgr_sent EXCEPT ![c] =
                      Append(@, [type |-> "ConnectionClosed", peer |-> hub[c].peer])]
    /\ hub' = [hub EXCEPT ![c].st = "closed"]
    /\ last' = HubCall("report_connection_closed", "Ok")
    /\ UNCHANGED <<limits, order, connections, evq, viewpc, cmdq, next_substream_id, issued>>

\* the connection task ends and its ProtocolSet, with the command receiver, is dropped
drop_protocol_set(c) ==
    /\ UNCHANGED <<nodevars, name_fmt, stopped, notified, origin>>
    /\ hub[c].st \in {"closed", "failed"}
    /\ hub' = [hub EXCEPT ![c].st = "dropped", ![c].tx = "Inactive", ![c].cur = NoCommand]
    /\ cmdq' = [cmdq EXCEPT ![c] = <<>>]
    /\ last' = Other
    /\ UNCHANGED <<limits, order, connections, evq, viewpc, mgr_sent, next_substream_id, issued>>

\* ProtocolSet::next_event; the task takes the next command once it has reported
\* the outcome of the one before
hub_next_event(c) ==
    /\ UNCHANGED <<nodevars, name_fmt, stopped, notified, origin>>
    /\ hub[c].st = "open"
    /\ hub[c].cur = NoCommand
    /\ IF cmdq[c] # <<>>
       THEN /\ cmdq' = [cmdq EXCEPT ![c] = Tail(@)]
            /\ hub' = [hub EXCEPT ![c].cur = Recv(cmdq[c])]
            /\ last' = Other
       ELSE \* recv suspends while a sender is alive and yields None once none is
            /\ ~HasStrong(c)
            /\ hub' = [hub EXCEPT ![c].none = TRUE]
            /\ last' = IF hub[c].none THEN last ELSE HubCall("hub_next_event", "None")
            /\ cmdq' = cmdq
    /\ UNCHANGED <<limits, order, connections, evq, viewpc, mgr_sent, next_substream_id, issued>>

\* ProtocolSet::next_substream_id
hub_next_substream_id(c) ==
    /\ UNCHANGED <<nodevars, name_fmt, stopped, notified, origin>>
    /\ hub[c].st = "open"
    /\ next_substream_id < limits.ids
    /\ next_substream_id' = FetchAdd(next_substream_id)
    /\ issued' = Append(issued, [id |-> next_substream_id, by |-> "hub"])
    /\ last' = Other
    /\ UNCHANGED <<limits, order, connections, evq, viewpc, hub, cmdq, mgr_sent>>

\* a lookup that finds every protocol under the first name
ChannelOfFirst(protocol) == "ping"

\* self.protocols.get_mut(&protocol): the event channel registered under the name
ChannelOf(protocol) == protocol

\* a report that returns Ok for a name nobody registered
NotSupportedIgnored(op) == HubCall(op, "Ok")

\* Err(Error::ProtocolNotSupported)
NotSupported(op) == HubCall(op, "ProtocolNotSupported")

\* the routing of report_substream_open and report_substream_open_failure:
\* the event goes to the protocol registered as `protocol`, if there is one
route_substream_event(c, op, protocol, event) ==
    /\ UNCHANGED <<nodevars, name_fmt, stopped, notified>>
    /\ hub[c].st = "open"
    /\ hub[c].cur # NoCommand
    /\ UNCHANGED <<limits, order, connections, viewpc, cmdq, mgr_sent, next_substream_id, issued>>
    /\ IF protocol \notin Protocols
       THEN /\ hub' = [hub EXCEPT ![c].cur = NoCommand]
            /\ UNCHANGED <<evq, origin>>
            /\ last' = NotSupported(op)
       ELSE IF ChannelOf(protocol) \in stopped
       THEN \* the receiver is gone: the send returns an error
            /\ hub' = [hub EXCEPT ![c].cur = NoCommand]
            /\ UNCHANGED <<evq, origin>>
            /\ last' = HubCall(op, "ChannelClosed")
       ELSE IF Len(evq[ChannelOf(protocol)]) >= limits.events
       THEN \* the channel is full: the task is suspended in send
            /\ hub' = [hub EXCEPT ![c].cur = NoCommand, ![c].st = "sub_send",
                                  ![c].out = [to |-> ChannelOf(protocol), event |-> event, op |-> op]]
            /\ UNCHANGED <<evq, origin>>
            /\ last' = HubCall(op, "Suspended")
       ELSE /\ hub' = [hub EXCEPT ![c].cur = NoCommand]
            /\ evq' = [evq EXCEPT ![ChannelOf(protocol)] = Append(@, event)]
            /\ origin' = [origin EXCEPT ![ChannelOf(protocol)] = Append(@, c)]
            /\ last' = HubCall(op, "Ok")

report_substream_open(c, protocol) ==
    route_substream_event(c, "report_substream_open", protocol,
        SubstreamOpened(hub[c].peer, protocol, hub[c].cur.substream_id))

report_substream_open_failure(c, protocol) ==
    route_substream_event(c, "report_substream_open_failure", protocol,
        SubstreamOpenFailure(hub[c].cur.substream_id))

\* a suspended report_substream_open / report_substream_open_failure completes
substream_send_resume(c) ==
    /\ UNCHANGED <<nodevars, name_fmt, stopped, notified>>
    /\ hub[c].st = "sub_send"
    /\ hub' = [hub EXCEPT ![c].st = "open", ![c].out = NoSend]
    /\ IF hub[c].out.to \in stopped
       THEN /\ UNCHANGED <<evq, origin>>
            /\ last' = HubCall(hub[c].out.op, "ChannelClosed")
       ELSE /\ Len(evq[hub[c].out.to]) < limits.events
            /\ evq' = [evq EXCEPT ![hub[c].out.to] = Append(@, hub[c].out.event)]
            /\ origin' = [origin EXCEPT ![hub[c].out.to] = Append(@, c)]
            /\ last' = HubCall(hub[c].out.op, "Ok")
    /\ UNCHANGED <<limits, order, connections, viewpc, cmdq, mgr_sent, next_substream_id, issued>>

Next ==
    \/ \E p \in Protocols, peer \in Peers : disconnect(p, peer)
    \/ \E p \in Protocols, peer \in Peers : open_substream(p, peer)
    \/ \E p \in Protocols : open_substream_resume(p)
    \/ \E p \in Protocols : view_next_event(p)
    \/ \E c \in Conns : \E peer \in FirstPeers(c) : new_protocol_set(c, peer)
    \/ \E c \in Conns : established_send(c)
    \/ \E c \in Conns : established_mgr(c)
    \/ \E c \in Conns : closed_send(c)
    \/ \E c \in Conns : closed_mgr(c)
    \/ \E c \in Conns : drop_protocol_set(c)
    \/ \E c \in Conns : hub_next_event(c)
    \/ \E c \in Conns : hub_next_substream_id(c)
    \/ \E c \in Conns, n \in Names : report_substream_open(c, n)
    \/ \E c \in Conns, n \in Names : report_substream_open_failure(c, n)
    \/ \E c \in Conns : substream_send_resume(c)

\* a protocol task ends: its TransportService is dropped, and with it the receiver of
\* its event channel, the events still queued there and every handle it holds
drop_transport_service(p) ==
    /\ p \notin stopped
    /\ viewpc[p].st = "idle"
    /\ stopped' = stopped \cup {p}
    /\ connections' = [connections EXCEPT ![p] = [peer \in Peers |-> NoConnection]]
    /\ evq' = [evq EXCEPT ![p] = <<>>]
    /\ origin' = [origin EXCEPT ![p] = <<>>]
    /\ last' = Other
    /\ UNCHANGED <<nodevars, name_fmt, limits, order, viewpc, hub, cmdq, mgr_sent, next_substream_id,
                   issued, notified>>

NextStop ==
    \/ Next
    \/ \E p \in Protocols : drop_transport_service(p)


(***************************************************************************)
(* Node Coordinator: Litep2p and its TransportContext.                     *)
(***************************************************************************)
\* calls of connect in a run
MaxConnects == 2
\* addresses in the result of a lookup
MaxLookup == 2
\* distinct IP addresses of each family a lookup may return
MaxIp == 2
\* connections the listeners of a node accept in a run
MaxInbound == 1
\* depth of a transport's command channel and of the coordinator's event channel
\* (DEFAULT_CHANNEL_SIZE in the source)
DialChannelBound == 2

SupportedTransport == {"Tcp", "Quic", "WebRtc", "WebSocket"}

\* a segment of a Multiaddr: multiaddr::Protocol
Seg(proto, v) == [proto |-> proto, v |-> v]
Ip4(v) == Seg("ip4", v)
Ip6(v) == Seg("ip6", v)
Tcp == Seg("tcp", 0)
Udp == Seg("udp", 0)
Ws == Seg("ws", 0)
QuicV1 == Seg("quic-v1", 0)
P2p == Seg("p2p", 0)

\* the addresses given to connect: every shape its two matches tell apart
Addresses ==
    { <<>>,
      <<Ip4(1)>>,
      <<Ip4(1), Tcp>>,
      <<Ip6(1), Tcp, P2p>>,
      <<Ip4(1), Tcp, Ws>>,
      <<Ip6(1), Udp, QuicV1>>,
      <<Ip4(1), Udp>>,
      <<Ip4(1), Udp, P2p>>,
      <<Ip4(1), Ws>>,
      <<Tcp, Ip4(1)>>,
      <<Seg("dns", 0)>>,
      <<Seg("dns", 0), Tcp, P2p>>,
      <<Seg("dns4", 0), Tcp, Ws>>,
      <<Seg("dns6", 0), Udp, QuicV1>> }

IsIp(seg) == seg.proto \in {"ip4", "ip6"}

\* a test that takes no first segment for a DNS name
NotDns(seg) == FALSE

IsDns(seg) == seg.proto \in {"dns", "dns4", "dns6"}

\* std::net::IpAddr
IpAddrs == {[fam |-> f, v |-> v] : f \in {"V4", "V6"}, v \in 1..MaxIp}
\* Result<LookupIp, ResolveError>
ResolveError == [ok |-> FALSE, ips |-> <<>>]
LookupIp(ips) == [ok |-> TRUE, ips |-> ips]
LookupResults ==
    {ResolveError} \cup {LookupIp(ips) : ips \in UNION {[1..k -> IpAddrs] : k \in 0..MaxLookup}}

\* TransportCommand::Dial
Dial(address, id) == [address |-> address, connection_id |-> id]

\* TransportEvent, as the coordinator receives it; `dial` is the ConnectionId of the
\* Dial command it answers; an event that answers none has 0, or the negated number
\* of the accepted connection it reports
TransportEvent(type, address, error, id) ==
    [type |-> type, peer |-> "peerA", address |-> address, error |-> error, dial |-> id]
NoEvent == TransportEvent("none", <<>>, "", 0)

\* what `nlast` keeps of a call: the address it was about, the lookup result it
\* handled, its result, the event it returned and the address it dialled or refused
NodeCall(op, arg, lookup, res, event, out) ==
    [op |-> op, arg |-> arg, lookup |-> lookup, res |-> res, event |-> event, out |-> out]
NoLookup == [ok |-> FALSE, ips |-> <<"none">>]

\* HashMap::insert
Insert(map, key, value) ==
    [k \in DOMAIN map \cup {key} |-> IF k = key THEN value ELSE map[k]]

\* ConnectionId::next
ConnectionIdNext(n) == n + 1

\* a dial that sends the ConnectionId of the dial before it
TransportDialStale(transport, address) ==
    [ to |-> transport, address |-> address,
      id |-> connection_id, counter |-> connection_id,
      res |-> IF transport \notin transports THEN "TransportNotSupported"
              ELSE IF transport \notin alive THEN "ChannelClosed"
              ELSE "Ok" ]

\* the body dial_tcp, dial_ws and dial_quic share: the id is taken first, then the
\* transport is looked up
TransportDial(transport, address) ==
    LET id == ConnectionIdNext(connection_id) IN
    [ to |-> transport, address |-> address,
      id |-> id, counter |-> id,
      res |-> IF transport \notin transports THEN "TransportNotSupported"
              ELSE IF transport \notin alive THEN "ChannelClosed"
              ELSE "Ok" ]

dial_tcp(address) == TransportDial("Tcp", address)

\* a WebSocket dial that goes out on the TCP channel
dial_ws_on_tcp(address) == TransportDial("Tcp", address)

dial_ws(address) == TransportDial("WebSocket", address)
dial_quic(address) == TransportDial("Quic", address)

\* the effect of a dial d on the coordinator: the counter moves, and if the transport
\* is configured the command is sent (the send waits for room in the channel)
Dialled(d) ==
    /\ connection_id' = d.counter
    /\ IF d.res = "Ok"
       THEN /\ Len(chan[d.to]) < DialChannelBound
            /\ chan' = [chan EXCEPT ![d.to] = Append(@, Dial(d.address, d.id))]
            /\ dials' = Append(dials, [to |-> d.to, address |-> d.address,
                                       connection_id |-> d.id])
       ELSE UNCHANGED <<chan, dials>>

\* connect, from the dial on: `?` returns the error of the dial, else the pair is
\* recorded in pending_connections
ConnectDials(d, address) ==
    /\ Dialled(d)
    /\ pending_connections' =
          IF d.res = "Ok" THEN Insert(pending_connections, d.id, address)
          ELSE pending_connections
    /\ nlast' = NodeCall("connect", address, NoLookup, d.res, NoEvent, address)
    /\ UNCHANGED <<pending_dns_resolves, dns_origin>>

\* connect returns Err(TransportNotSupported) before any dial
ConnectFails(address) ==
    /\ nlast' = NodeCall("connect", address, NoLookup, "TransportNotSupported", NoEvent, address)
    /\ UNCHANGED <<chan, connection_id, pending_connections, pending_dns_resolves, dials,
                   dns_origin>>

\* Litep2p::new has returned a node and no call of it has panicked: only then is
\* there anything to call
NodeExists == listen_addresses # <<>> /\ nlast.res # "Panic"

\* Litep2p::connect
connect(address) ==
    /\ NodeExists
    /\ connects < MaxConnects
    /\ connects' = connects + 1
    /\ UNCHANGED <<hubvars, transports, listen_addresses, alive, inbound, rx, established>>
    /\ IF address = <<>>
       THEN ConnectFails(address)
       ELSE IF IsDns(address[1])
       THEN /\ pending_dns_resolves' = Append(pending_dns_resolves, address)
            /\ nlast' = NodeCall("connect", address, NoLookup, "Ok", NoEvent, address)
            /\ UNCHANGED <<chan, connection_id, pending_connections, dials, dns_origin>>
       ELSE IF ~IsIp(address[1])
       THEN ConnectFails(address)
       ELSE IF Len(address) < 2
       THEN ConnectFails(address)
       ELSE IF address[2].proto = "tcp"
       THEN IF Len(address) >= 3 /\ address[3].proto = "ws"
            THEN ConnectDials(dial_ws(address), address)
            ELSE ConnectDials(dial_tcp(address), address)
       ELSE IF address[2].proto = "udp"
       THEN IF Len(address) < 3
            THEN ConnectFails(address)
            ELSE IF address[3].proto = "quic-v1"
            THEN ConnectDials(dial_quic(address), address)
            ELSE ConnectFails(address)
       ELSE ConnectFails(address)

\* a choice between the families that prefers IPv4
PreferIp4(ip6, ip4) ==
    IF ip4 # <<>> THEN <<Ip4(ip4[1].v)>>
    ELSE IF ip6 # <<>> THEN <<Ip6(ip6[1].v)>>
    ELSE <<>>

\* the choice made for a plain dns name: <<>> when there is no address at all
PreferIp6(ip6, ip4) ==
    IF ip6 # <<>> THEN <<Ip6(ip6[1].v)>>
    ELSE IF ip4 # <<>> THEN <<Ip4(ip4[1].v)>>
    ELSE <<>>

\* the segment that replaces the DNS name, <<>> when the match returns an error
ResolvedSegment(seg, ips) ==
    IF seg.proto = "dns4"
    THEN IF ips # <<>> /\ ips[1].fam = "V4" THEN <<Ip4(ips[1].v)>> ELSE <<>>
    ELSE IF seg.proto = "dns6"
    THEN IF ips # <<>> /\ ips[1].fam = "V6" THEN <<Ip6(ips[1].v)>> ELSE <<>>
    ELSE PreferIp6(SelectSeq(ips, LAMBDA ip : ip.fam = "V6"),
                   SelectSeq(ips, LAMBDA ip : ip.fam = "V4"))

\* a rewrite that keeps the new first segment only
WithoutRest(first, address) == first

\* a rewrite that puts the new segment in front of the whole original
InFrontOfName(first, address) == first \o address

\* the new address: the new first segment, then the rest of the protocol stack
Rewritten(first, address) == first \o Tail(address)

\* a handler that takes a failed lookup for an empty result
on_resolved_dns_address_as_empty(address, result) ==
    LET first == ResolvedSegment(address[1], result.ips) IN
    IF first = <<>>
    THEN [ok |-> FALSE, error |-> "TransportNotSupported", address |-> address]
    ELSE [ok |-> TRUE, error |-> "", address |-> Rewritten(first, address)]

\* Litep2p::on_resolved_dns_address
on_resolved_dns_address(address, result) ==
    IF ~result.ok
    THEN [ok |-> FALSE, error |-> "DnsAddressResolutionFailed", address |-> address]
    ELSE LET first == ResolvedSegment(address[1], result.ips) IN
         IF first = <<>>
         THEN [ok |-> FALSE, error |-> "TransportNotSupported", address |-> address]
         ELSE [ok |-> TRUE, error |-> "", address |-> Rewritten(first, address)]

\* a completion that leaves the future in the set
StillThere(s, i) == s

\* sequence s without its i-th element
Without(s, i) == SubSeq(s, 1, i - 1) \o SubSeq(s, i + 1, Len(s))

\* a receive that leaves the message in the channel
AfterPeek(q) == q

\* the coordinator's channel once rx.recv() has taken its oldest message
AfterRecv(q) == Tail(q)

\* a match that returns every transport event
AllReturned(event) == TRUE

\* a match without the DialFailure arm
OnlyEstablishedReturned(event) == event.type = "ConnectionEstablished"

\* the arms of the match on rx.recv() that return: the others log and loop
IsReturned(event) == event.type \in {"ConnectionEstablished", "DialFailure"}

\* Litep2p::next_event, the branch of rx.recv()
next_event_rx ==
    /\ NodeExists
    /\ rx # <<>>
    /\ rx' = AfterRecv(rx)
    /\ nlast' = IF IsReturned(Head(rx))
                THEN NodeCall("next_event", <<>>, NoLookup, "Ok", Head(rx), <<>>)
                ELSE NodeCall("next_event", <<>>, NoLookup, "Continue", NoEvent, <<>>)
    /\ UNCHANGED <<hubvars, transports, listen_addresses, alive, inbound, chan, connection_id, pending_connections,
                   pending_dns_resolves, established, connects, dials, dns_origin>>

\* Litep2p::next_event, the branch of pending_dns_resolves: the i-th lookup completes
\* with `result`
next_event_dns(i, result) ==
    /\ NodeExists
    /\ i \in 1..Len(pending_dns_resolves)
    /\ pending_dns_resolves' = Without(pending_dns_resolves, i)
    /\ UNCHANGED <<hubvars, transports, listen_addresses, alive, inbound, rx, established, connects>>
    /\ LET original == pending_dns_resolves[i]
           resolved == on_resolved_dns_address(original, result)
           d == dial_tcp(resolved.address)
       IN
       IF resolved.ok
       THEN /\ Dialled(d)
            /\ pending_connections' =
                  IF d.res = "Ok" THEN Insert(pending_connections, d.id, resolved.address)
                  ELSE pending_connections
            /\ dns_origin' =
                  IF d.res = "Ok" THEN Insert(dns_origin, d.id, original) ELSE dns_origin
            /\ nlast' = NodeCall("next_event", original, result,
                                 IF d.res = "Ok" THEN "Continue" ELSE d.res,
                                 NoEvent, resolved.address)
       ELSE /\ nlast' = NodeCall("next_event", original, result, "Ok",
                                 TransportEvent("DialFailure", original, resolved.error, 0),
                                 <<>>)
            /\ UNCHANGED <<chan, connection_id, pending_connections, dials, dns_origin>>

\* a transport task takes a Dial command and reports how the dial ended; the event
\* carries the address of the command
transport_report(t, type) ==
    /\ NodeExists
    /\ t \in alive
    /\ chan[t] # <<>>
    /\ Len(rx) < DialChannelBound
    /\ chan' = [chan EXCEPT ![t] = Tail(@)]
    /\ rx' = Append(rx, TransportEvent(type, Head(chan[t]).address,
                                       IF type = "DialFailure" THEN "Refused" ELSE "",
                                       Head(chan[t]).connection_id))
    /\ established' = [established EXCEPT ![t] = IF type = "ConnectionEstablished"
                                                  THEN @ + 1 ELSE @]
    /\ UNCHANGED <<hubvars, transports, listen_addresses, alive, inbound, connection_id, pending_connections,
                   pending_dns_resolves, connects, dials, dns_origin, nlast>>

\* a transport task reports that a connection it had established is closed
transport_closed(t) ==
    /\ NodeExists
    /\ t \in alive
    /\ established[t] > 0
    /\ Len(rx) < DialChannelBound
    /\ rx' = Append(rx, TransportEvent("ConnectionClosed", <<>>, "", 0))
    /\ established' = [established EXCEPT ![t] = @ - 1]
    /\ UNCHANGED <<hubvars, transports, listen_addresses, alive, inbound, chan, connection_id, pending_connections,
                   pending_dns_resolves, connects, dials, dns_origin, nlast>>

\* the order in which Litep2p::new goes through the transports of the configuration
TransportOrder == <<"Tcp", "Quic", "WebRtc", "WebSocket">>

\* transport.listen_address()
ListenAddress(t) == [listener |-> t]

\* a check that finds a transport in every configuration
NeverEmpty(addresses) == FALSE

\* listen_addresses.is_empty()
IsEmpty(addresses) == addresses = <<>>

\* what Litep2p::new is given: the transports the configuration enables, the ones
\* whose construction would fail, whether the registration of the protocols
\* succeeds, and whether mDNS is configured and can be set up
NewConfigs ==
    [ enabled : SUBSET SupportedTransport,
      failing : SUBSET SupportedTransport,
      protocols : {"Ok", "Err"},
      mdns : {"None", "Ok", "Err"} ]

NewFailed(error) == [res |-> error, transports |-> {}, listen_addresses |-> <<>>]

\* Litep2p::new from the k-th transport on, with what the ones before have added
RECURSIVE EnableTransports(_, _, _, _)
EnableTransports(config, k, added, addresses) ==
    IF k > Len(TransportOrder)
    THEN IF config.mdns = "Err"
         THEN NewFailed("MdnsError")
         ELSE IF IsEmpty(addresses)
         THEN NewFailed("NoTransportSpecified")
         ELSE [res |-> "Ok", transports |-> added, listen_addresses |-> addresses]
    ELSE LET t == TransportOrder[k] IN
         IF t \notin config.enabled
         THEN EnableTransports(config, k + 1, added, addresses)
         ELSE IF t \in config.failing
         THEN NewFailed("TransportError")
         ELSE EnableTransports(config, k + 1, added \cup {t},
                               Append(addresses, ListenAddress(t)))

\* the result of Litep2p::new
New(config) ==
    IF config.protocols = "Err"
    THEN NewFailed("ProtocolError")
    ELSE EnableTransports(config, 1, {}, <<>>)

\* the listen addresses of a node built with the given transports, none of which failed
ListenAddressesOf(enabled) ==
    New([enabled |-> enabled, failing |-> {}, protocols |-> "Ok", mdns |-> "None"]).listen_addresses

\* the address a connection accepted by a listener comes from
RemoteAddress == <<Ip6(2), Tcp>>

\* a transport task accepts a connection on its listener and reports it; the event
\* answers no Dial command
transport_accept(t) ==
    /\ NodeExists
    /\ t \in transports
    /\ t \in alive
    /\ inbound < MaxInbound
    /\ Len(rx) < DialChannelBound
    /\ inbound' = inbound + 1
    /\ rx' = Append(rx, TransportEvent("ConnectionEstablished", RemoteAddress, "", -(inbound + 1)))
    /\ established' = [established EXCEPT ![t] = @ + 1]
    /\ UNCHANGED <<hubvars, transports, listen_addresses, alive, chan, connection_id,
                   pending_connections, pending_dns_resolves, connects, dials, dns_origin,
                   nlast>>

\* the coordinator before the first call, with the transports of `config`
Litep2pNew(config) ==
    /\ transports = config
    /\ listen_addresses = ListenAddressesOf(config)
    /\ chan = [t \in SupportedTransport |-> <<>>]
    /\ connection_id = 0
    /\ pending_connections = <<>>
    /\ pending_dns_resolves = <<>>
    /\ rx = <<>>
    /\ established = [t \in SupportedTransport |-> 0]
    /\ inbound = 0
    /\ alive = config
    /\ connects = 0
    /\ dials = <<>>
    /\ dns_origin = <<>>
    /\ nlast = NodeCall("new", <<>>, NoLookup, "Ok", NoEvent, <<>>)

\* Litep2p::new fails when no transport is configured
Configurations == SUBSET SupportedTransport \ {{}}

\* no call of Litep2p::new has been made
NotConstructed == NodeCall("none", <<>>, NoLookup, "", NoEvent, <<>>)

\* Litep2p::new
litep2p_new(config) ==
    /\ nlast = NotConstructed
    /\ LET r == New(config) IN
       /\ transports' = r.transports
       /\ listen_addresses' = r.listen_addresses
       /\ alive' = r.transports
       /\ nlast' = NodeCall("new", <<>>, NoLookup, r.res, NoEvent, <<>>)
    /\ UNCHANGED <<hubvars, chan, connection_id, pending_connections, pending_dns_resolves,
                   rx, established, inbound, connects, dials, dns_origin>>

NextNode ==
    \/ \E address \in Addresses : connect(address)
    \/ next_event_rx
    \/ \E i \in 1..MaxConnects, result \in LookupResults : next_event_dns(i, result)
    \/ \E t \in SupportedTransport, type \in {"ConnectionEstablished", "DialFailure"} :
          transport_report(t, type)
    \/ \E t \in SupportedTransport : transport_closed(t)

\* a transport task ends: the Receiver of its commands is dropped with the commands
\* still queued, and so is its Sender of the coordinator's event channel
transport_exit(t) ==
    /\ NodeExists
    /\ t \in alive
    /\ alive' = alive \ {t}
    /\ chan' = [chan EXCEPT ![t] = <<>>]
    /\ UNCHANGED <<hubvars, transports, listen_addresses, inbound, connection_id,
                   pending_connections, pending_dns_resolves, rx, established, connects,
                   dials, dns_origin, nlast>>

\* a closed channel that is reported as a failed dial
ClosedAsDialFailure ==
    NodeCall("next_event", <<>>, NoLookup, "Ok",
             TransportEvent("DialFailure", <<>>, "ChannelClosed", 0), <<>>)

\* the None arm of the match on rx.recv(): panic!("tcp transport failed")
TransportFailed == NodeCall("next_event", <<>>, NoLookup, "Panic", NoEvent, <<>>)

\* Litep2p::next_event, the branch of rx.recv() once the channel is empty and
\* every Sender is gone
next_event_closed ==
    /\ NodeExists
    /\ rx = <<>>
    /\ alive = {}
    /\ nlast' = TransportFailed
    /\ UNCHANGED <<hubvars, transports, listen_addresses, alive, inbound, chan, connection_id,
                   pending_connections, pending_dns_resolves, rx, established, connects,
                   dials, dns_origin>>

\* a node whose transport tasks may end
NextExit ==
    \/ NextNode
    \/ \E t \in SupportedTransport : transport_exit(t)
    \/ next_event_closed

\* a node that dials and is dialled
NextPair ==
    \/ NextNode
    \/ \E t \in SupportedTransport : transport_accept(t)

\* the multiplexing layer, under a coordinator that stays as constructed
Init ==
    /\ limits \in Scenarios
    /\ HubInit
    /\ Litep2pNew({"Tcp"})

\* the coordinator, under a multiplexing layer without connections
InitNode ==
    /\ limits = [conns |-> 1, ids |-> 1, events |-> 1, commands |-> 1]
    /\ HubInit
    /\ \E config \in Configurations : Litep2pNew(config)

\* the multiplexing layer of one connection, with protocol tasks that may end
InitStop ==
    /\ limits = [conns |-> 1, ids |-> 2, events |-> 1, commands |-> 1]
    /\ HubInit
    /\ Litep2pNew({"Tcp"})

\* before Litep2p::new is called
InitNew ==
    /\ limits = [conns |-> 1, ids |-> 1, events |-> 1, commands |-> 1]
    /\ HubInit
    /\ transports = {}
    /\ listen_addresses = <<>>
    /\ chan = [t \in SupportedTransport |-> <<>>]
    /\ connection_id = 0
    /\ pending_connections = <<>>
    /\ pending_dns_resolves = <<>>
    /\ rx = <<>>
    /\ established = [t \in SupportedTransport |-> 0]
    /\ inbound = 0
    /\ alive = {}
    /\ connects = 0
    /\ dials = <<>>
    /\ dns_origin = <<>>
    /\ nlast = NotConstructed

\* the coordinator from its construction on
NextNew ==
    \/ \E config \in NewConfigs : litep2p_new(config)
    \/ NextNode

\* a node of the two-node test: one TCP transport, over which it dials and on
\* which it listens
InitPair ==
    /\ limits = [conns |-> 1, ids |-> 1, events |-> 1, commands |-> 1]
    /\ HubInit
    /\ Litep2pNew({"Tcp"})

\* the nodes whose transport tasks may end: one with TCP and one without
ExitConfigurations == {{"Tcp"}, {"Quic"}}

InitExit ==
    /\ limits = [conns |-> 1, ids |-> 1, events |-> 1, commands |-> 1]
    /\ HubInit
    /\ \E config \in ExitConfigurations : Litep2pNew(config)

SpecExit == InitExit /\ [][NextExit]_vars
(***************************************************************************)
(* ProtocolName and its conversion to a string: src/protocol/mod.rs.       *)
(***************************************************************************)
\* frames the stack of the calling thread has room for
MaxFrames == 16

\* ProtocolName::Static(&'static str)
ProtocolNames == {"/ipfs/ping/1.0.0", "/ipfs/id/1.0.0", "/notification/1"}

\* the protocol configurations that have a to_string
NameCallers == {"Libp2pProtocol", "NotificationProtocol"}

\* Libp2pProtocol::to_string and NotificationProtocol::to_string: self.name.to_string(),
\* which enters Display::fmt for the name
to_string(caller, name) ==
    /\ name_fmt = NoFmt
    /\ name_fmt' = [caller |-> caller, name |-> name, frames |-> 1, out |-> "running"]
    /\ UNCHANGED <<nodevars, muxvars>>

\* <ProtocolName as Display>::fmt: write!(f, "{}", self) formats `self` with Display,
\* which is this function again, on one more frame; when the stack has no room for
\* it the thread overflows its stack and the process is aborted
display_fmt ==
    /\ name_fmt.out = "running"
    /\ name_fmt' = IF name_fmt.frames < MaxFrames
                   THEN [name_fmt EXCEPT !.frames = @ + 1]
                   ELSE [name_fmt EXCEPT !.out = "StackOverflow"]
    /\ UNCHANGED <<nodevars, muxvars>>

NextName ==
    \/ \E caller \in NameCallers, name \in ProtocolNames : to_string(caller, name)
    \/ display_fmt

InitName ==
    /\ limits = [conns |-> 1, ids |-> 1, events |-> 1, commands |-> 1]
    /\ HubInit
    /\ Litep2pNew({"Tcp"})

\* a conversion that is under way goes on
SpecName == InitName /\ [][NextName]_vars /\ WF_vars(display_fmt)
Spec == Init /\ [][Next]_vars
SpecPair == InitPair /\ [][NextPair]_vars
SpecNew == InitNew /\ [][NextNew]_vars
SpecStop == InitStop /\ [][NextStop]_vars
SpecNode == InitNode /\ [][NextNode]_vars

(***************************************************************************)
(* Properties of the multiplexing layer, checked under Spec.               *)
(***************************************************************************)
ViewEntries == Protocols \X Peers

\* C1: once the Hub's next_event of a connection has returned None, no view holds
\* that connection Active; an Active view anywhere keeps the channel from closing.
C1_ClosedChannelHasNoActiveView ==
    \A c \in Conns :
        hub[c].none => \A e \in ViewEntries : connections[e[1]][e[2]] # Active(c)

\* a channel closed after every protocol was handed the connection and let go of it
C1_Witness ==
    \E c \in Conns :
        /\ hub[c].none
        /\ \A p \in Protocols : connections[p][hub[c].peer] = Inactive(c)

\* C2: disconnect(peer) turns an Active entry of that view and peer into an Inactive
\* one of the same connection and leaves any other entry as it is; it touches no
\* channel, no other entry and no other task, and a second call changes nothing.
C2_DisconnectFrame ==
    [][\A p \in Protocols, peer \in Peers :
         disconnect(p, peer) =>
            /\ connections'[p][peer] =
                 IF connections[p][peer].kind = "Active"
                 THEN [kind |-> "Inactive", conn |-> connections[p][peer].conn]
                 ELSE connections[p][peer]
            /\ \A e \in ViewEntries :
                 e # <<p, peer>> => connections'[e[1]][e[2]] = connections[e[1]][e[2]]
            /\ UNCHANGED <<evq, cmdq, mgr_sent, hub, viewpc, next_substream_id, issued>>
            /\ connections'[p][peer].kind # "Active"
      ]_vars

\* a disconnect has just downgraded one entry while another entry is still Active
C2_Witness ==
    /\ last = ViewCall("disconnect", "Active", "Done")
    /\ \E e, f \in ViewEntries :
         /\ e # f
         /\ connections[e[1]][e[2]].kind = "Inactive"
         /\ connections[f[1]][f[2]].kind = "Active"

\* what a completed open_substream of an Inactive view must have done: one command
\* with the view's name and the id it was given, the entry Active, nothing else sent
ReactivatedBy(p, peer, c, id) ==
    /\ cmdq' = [cmdq EXCEPT ![c] = Append(cmdq[c], [protocol |-> p, substream_id |-> id])]
    /\ \E i \in 1..Len(issued') : issued'[i] = [id |-> id, by |-> p]
    /\ connections'[p][peer] = [kind |-> "Active", conn |-> c]
    /\ last' = ViewCall("open_substream", "Inactive", "Ok")
    /\ evq' = evq
    /\ mgr_sent' = mgr_sent

\* C3 as stated: an Inactive view whose connection still has a strong handle gets a
\* SubstreamId from open_substream, with one command enqueued and the view Active
\* (the call may first wait for room in the channel).
C3_Original ==
    [][/\ \A p \in Protocols, peer \in Peers :
            open_substream(p, peer) =>
               \A c \in Conns :
                  (connections[p][peer] = Inactive(c) /\ HasStrong(c)) =>
                      \/ \E id \in 0..limits.ids :
                            id = next_substream_id /\ ReactivatedBy(p, peer, c, id)
                      \/ viewpc'[p].st = "sending"
       /\ \A p \in Protocols :
            open_substream_resume(p) =>
               \A peer \in Peers, c \in Conns, id \in 0..limits.ids :
                  viewpc[p] = Sending(peer, c, [protocol |-> p, substream_id |-> id], TRUE)
                      => ReactivatedBy(p, peer, c, id)
      ]_vars

\* C3 as amended: the same, for a connection whose task still holds the receiver of
\* the command channel when the send completes; a call that finds the channel full
\* waits, holding its upgraded handle, and enqueues nothing until there is room.
C3_ReactivateWhileReceiverAlive ==
    [][/\ \A p \in Protocols, peer \in Peers :
            open_substream(p, peer) =>
               \A c \in Conns, id \in 0..limits.ids :
                  (/\ connections[p][peer] = Inactive(c)
                   /\ id = next_substream_id
                   /\ HasStrong(c)
                   /\ ~RxDropped(c)) =>
                      IF Len(cmdq[c]) < limits.commands
                      THEN ReactivatedBy(p, peer, c, id)
                      ELSE /\ viewpc'[p] = [st |-> "sending", peer |-> peer, conn |-> c,
                                            cmd |-> [protocol |-> p, substream_id |-> id],
                                            upgraded |-> TRUE]
                           /\ cmdq' = cmdq
       /\ \A p \in Protocols :
            open_substream_resume(p) =>
               \A peer \in Peers, c \in Conns, id \in 0..limits.ids :
                  (/\ viewpc[p] = Sending(peer, c, [protocol |-> p, substream_id |-> id], TRUE)
                   /\ ~RxDropped(c)) =>
                      ReactivatedBy(p, peer, c, id)
      ]_vars

\* an Inactive view has just been re-activated while every other view of the
\* connection is Inactive: its handle alone keeps the channel open
C3_Witness ==
    /\ last = ViewCall("open_substream", "Inactive", "Ok")
    /\ \E c \in Conns, p \in Protocols :
         /\ connections[p][hub[c].peer] = Active(c)
         /\ \A q \in Protocols \ {p} : connections[q][hub[c].peer] = Inactive(c)
         /\ \E i \in 1..Len(cmdq[c]) : cmdq[c][i].protocol = p
         /\ ~hub[c].none

\* C4: open_substream returns PeerDoesntExist exactly when the view has no entry for
\* the peer, returns Disconnected when the entry is Inactive and no strong handle is
\* left, and enqueues nothing in either case.
C4_OpenSubstreamFailures ==
    [][\A p \in Protocols, peer \in Peers :
         LET e == connections[p][peer] IN
         open_substream(p, peer) =>
            /\ (last'.op = "open_substream" /\ last'.res = "PeerDoesntExist")
                  <=> e.kind = "None"
            /\ (e.kind = "Inactive" /\ ~HasStrong(e.conn)) =>
                  (last'.op = "open_substream" /\ last'.res = "Disconnected")
            /\ (last'.res \in {"PeerDoesntExist", "Disconnected"}) =>
                  /\ cmdq' = cmdq
                  /\ evq' = evq
                  /\ mgr_sent' = mgr_sent
                  /\ viewpc' = viewpc
      ]_vars

\* open_substream has just failed with Disconnected on a dead connection
C4_Witness ==
    /\ last = ViewCall("open_substream", "Inactive", "Disconnected")
    /\ \E e \in ViewEntries :
         /\ connections[e[1]][e[2]].kind = "Inactive"
         /\ ~HasStrong(connections[e[1]][e[2]].conn)
    /\ \E e \in ViewEntries : connections[e[1]][e[2]].kind = "None"

\* C5: the SubstreamIds handed out, by open_substream of any view and by
\* next_substream_id of any Hub, are strictly increasing in allocation order.
C5_SubstreamIdsStrictlyIncreasing ==
    \A i, j \in 1..Len(issued) : i < j => issued[i].id < issued[j].id

\* both views and a Hub have taken an id
C5_Witness ==
    /\ \A who \in Protocols \cup {"hub"} : \E i \in 1..Len(issued) : issued[i].by = who
    /\ Len(issued) >= 3
(***************************************************************************)
(* Properties of the Node Coordinator, checked under SpecNode.             *)
(***************************************************************************)
\* C6: every Dial command carries a ConnectionId strictly greater than that of every
\* Dial command sent before it, on whichever channel and from connect or from a
\* resolution; so each Pending Dial belongs to one Dial command only.
C6_DialIdsStrictlyIncreasing ==
    /\ \A i, j \in 1..Len(dials) :
          i < j => dials[i].connection_id < dials[j].connection_id
    /\ \A id \in DOMAIN pending_connections :
          Cardinality({i \in 1..Len(dials) : dials[i].connection_id = id}) = 1

\* two dials on different channels, the later one made after a resolution
C6_Witness ==
    /\ Len(dials) = 2
    /\ dials[1].to # dials[2].to
    /\ dials[2].connection_id \in DOMAIN dns_origin
    /\ dials[1].connection_id \notin DOMAIN dns_origin
    /\ DOMAIN pending_connections = {dials[1].connection_id, dials[2].connection_id}

\* the transport the claim assigns to an address: "none" for every address that is
\* not literal-IP + TCP (+ WebSocket) or literal-IP + UDP + QUIC-v1
Matching(address) ==
    IF Len(address) < 2 \/ address[1].proto \notin {"ip4", "ip6"} THEN "none"
    ELSE IF address[2].proto = "tcp"
         THEN IF Len(address) >= 3 /\ address[3].proto = "ws" THEN "WebSocket" ELSE "Tcp"
    ELSE IF address[2].proto = "udp" /\ Len(address) >= 3 /\ address[3].proto = "quic-v1"
         THEN "Quic"
    ELSE "none"

DnsRooted(address) ==
    address # <<>> /\ address[1].proto \in {"dns", "dns4", "dns6"}

\* connect has sent one Dial command for the address, on channel t and on no other
OneDialOn(t, address) ==
    /\ Len(chan'[t]) = Len(chan[t]) + 1
    /\ chan'[t][Len(chan'[t])].address = address
    /\ SubSeq(chan'[t], 1, Len(chan[t])) = chan[t]
    /\ \A u \in SupportedTransport \ {t} : chan'[u] = chan[u]
    /\ nlast'.res = "Ok"

RefusedWithoutCommand ==
    /\ nlast'.res = "TransportNotSupported"
    /\ chan' = chan

C8_DnsConnectOnlyRegistersResolution ==
    [][\A address \in Addresses :
         (connect(address) /\ DnsRooted(address)) =>
            /\ nlast'.res = "Ok"
            /\ Len(pending_dns_resolves') = Len(pending_dns_resolves) + 1
            /\ pending_dns_resolves'[Len(pending_dns_resolves')] = address
            /\ SubSeq(pending_dns_resolves', 1, Len(pending_dns_resolves))
                  = pending_dns_resolves
            /\ chan' = chan
            /\ dials' = dials
            /\ connection_id' = connection_id
            /\ pending_connections' = pending_connections
      ]_vars

\* a second DNS-rooted connect has returned while the first resolution is pending
C8_Witness ==
    /\ nlast.op = "connect"
    /\ nlast.res = "Ok"
    /\ DnsRooted(nlast.arg)
    /\ Len(pending_dns_resolves) = 2
    /\ pending_dns_resolves[2] = nlast.arg
    /\ connection_id = 0
    /\ dials = <<>>

\* the address has a literal IP in front and the trailing segments of `original`
LiteralIpThenRestOf(address, original) ==
    /\ address # <<>>
    /\ address[1].proto \in {"ip4", "ip6"}
    /\ Len(address) = Len(original)
    /\ \A k \in 2..Len(original) : address[k] = original[k]

\* the event next_event yields for a transport's report on a dial made after a
\* resolution keeps the shape of the address that was dialled
ReportedAsDialled ==
    (/\ next_event_rx
     /\ nlast'.event.type \in {"ConnectionEstablished", "DialFailure"}
     /\ nlast'.event.dial \in DOMAIN dns_origin) =>
        LiteralIpThenRestOf(nlast'.event.address, dns_origin[nlast'.event.dial])

Positions(ips, fam) == {k \in 1..Len(ips) : ips[k].fam = fam}
Lowest(S) == CHOOSE k \in S : \A m \in S : k <= m

\* C10: for a plain dns name and a lookup that succeeded, the first segment of the
\* rewritten address is the first IPv6 address of the result if there is one, even
\* behind IPv4 addresses; else the first IPv4 address; and with no address at all a
\* DialFailure is yielded and no Dial command is sent.
C10_PlainDnsPrefersIp6 ==
    [][\A i \in 1..MaxConnects, result \in LookupResults :
         (/\ next_event_dns(i, result)
          /\ pending_dns_resolves[i][1].proto = "dns"
          /\ result.ok) =>
            LET v6 == Positions(result.ips, "V6")
                v4 == Positions(result.ips, "V4")
                dialled == Len(dials') = Len(dials) + 1
            IN
            IF v6 # {}
            THEN /\ nlast'.out[1] = [proto |-> "ip6", v |-> result.ips[Lowest(v6)].v]
                 /\ dialled => dials'[Len(dials')].address[1] = nlast'.out[1]
                 /\ "Tcp" \in transports => dialled
            ELSE IF v4 # {}
            THEN /\ nlast'.out[1] = [proto |-> "ip4", v |-> result.ips[Lowest(v4)].v]
                 /\ dialled => dials'[Len(dials')].address[1] = nlast'.out[1]
                 /\ "Tcp" \in transports => dialled
            ELSE /\ nlast'.event.type = "DialFailure"
                 /\ dials' = dials
                 /\ chan' = chan
      ]_vars

\* a plain dns name was resolved to an IPv4 address followed by an IPv6 address, and
\* the IPv6 address was dialled
C10_Witness ==
    /\ nlast.op = "next_event"
    /\ nlast.arg # <<>>
    /\ nlast.arg[1].proto = "dns"
    /\ nlast.lookup.ok
    /\ Len(nlast.lookup.ips) = 2
    /\ nlast.lookup.ips[1].fam = "V4"
    /\ nlast.lookup.ips[2].fam = "V6"
    /\ dials # <<>>
    /\ dials[Len(dials)].address[1] = [proto |-> "ip6", v |-> nlast.lookup.ips[2].v]
\* the literal-IP segment of a resolved address
SegmentOf(ip) ==
    [proto |-> IF ip.fam = "V4" THEN "ip4" ELSE "ip6", v |-> ip.v]

\* the DNS segment that asks for addresses of family fam only
FamilyName(fam) == IF fam = "V4" THEN "dns4" ELSE "dns6"

\* C11: for a dns4 (dns6) address and a lookup result that holds an IPv4 (IPv6)
\* address, the first segment of the rewritten address is the first address of that
\* family in the result, at whatever position it stands.
C11_FirstOfMatchingFamily ==
    [][\A i \in 1..MaxConnects, result \in LookupResults :
         next_event_dns(i, result) =>
            \A fam \in {"V4", "V6"} :
               (/\ pending_dns_resolves[i][1].proto = FamilyName(fam)
                /\ result.ok
                /\ Positions(result.ips, fam) # {}) =>
                   /\ nlast'.out # <<>>
                   /\ nlast'.out[1] = SegmentOf(result.ips[Lowest(Positions(result.ips, fam))])
      ]_vars

\* a dns4 name was resolved to an IPv6 address followed by an IPv4 address, and the
\* request ended in a DialFailure without any dial
C11_Witness ==
    /\ nlast.op = "next_event"
    /\ nlast.arg # <<>>
    /\ nlast.arg[1].proto = "dns4"
    /\ nlast.lookup.ok
    /\ Len(nlast.lookup.ips) = 2
    /\ nlast.lookup.ips[1].fam = "V6"
    /\ nlast.lookup.ips[2].fam = "V4"
    /\ nlast.event.type = "DialFailure"
    /\ nlast.event.error = "TransportNotSupported"
    /\ dials = <<>>

\* C12: after a successful resolution the Dial command goes to the channel connect
\* would choose for the rewritten address, and a rewritten address of no supported
\* shape (or of a transport that is not configured) gets no Dial command.
C12_ResolvedAddressReentersSelection ==
    [][\A i \in 1..MaxConnects, result \in LookupResults :
         (/\ next_event_dns(i, result)
          /\ nlast'.out # <<>>) =>
            IF Matching(nlast'.out) # "none" /\ Matching(nlast'.out) \in transports
            THEN /\ Len(dials') = Len(dials) + 1
                 /\ dials'[Len(dials')].to = Matching(nlast'.out)
                 /\ dials'[Len(dials')].address = nlast'.out
            ELSE /\ dials' = dials
                 /\ chan' = chan
      ]_vars

\* a resolved WebSocket address was dialled on the TCP channel although the
\* WebSocket transport is configured
C12_Witness ==
    /\ nlast.op = "next_event"
    /\ DnsRooted(nlast.arg)
    /\ Matching(nlast.out) = "WebSocket"
    /\ "WebSocket" \in transports
    /\ dials # <<>>
    /\ dials[Len(dials)].to = "Tcp"
    /\ dials[Len(dials)].address = nlast.out
    /\ chan["WebSocket"] = <<>>

\* C13: the address of the Dial command sent after a successful resolution has as
\* many segments as the original address and the same segment at every position
\* but the first.
C13_DialledDiffersInFirstSegmentOnly ==
    [][\A i \in 1..MaxConnects, result \in LookupResults :
         (/\ next_event_dns(i, result)
          /\ Len(dials') = Len(dials) + 1) =>
            LET original == pending_dns_resolves[i]
                dialled == dials'[Len(dials')].address
            IN
            /\ Len(dialled) = Len(original)
            /\ \A k \in 2..Len(original) : dialled[k] = original[k]
            /\ dialled[1] # original[1]
            /\ chan'["Tcp"][Len(chan'["Tcp"])].address = dialled
      ]_vars

\* a resolved address of three segments is waiting in the TCP channel, equal to what
\* was given to connect from the second segment on
C13_Witness ==
    /\ nlast.op = "next_event"
    /\ nlast.lookup.ok
    /\ Len(nlast.arg) = 3
    /\ chan["Tcp"] # <<>>
    /\ LET dialled == chan["Tcp"][Len(chan["Tcp"])].address IN
       /\ Len(dialled) = 3
       /\ dialled[2] = nlast.arg[2]
       /\ dialled[3] = nlast.arg[3]
       /\ dialled[1].proto = "ip6"
       /\ nlast.arg[1].proto = "dns6"

\* C14: when the lookup of a DNS-rooted connect fails, next_event yields a
\* DialFailure with the address as given to connect and the error
\* DnsAddressResolutionFailed, and no Dial command is sent.
C14_FailedLookupYieldsDialFailure ==
    [][\A i \in 1..MaxConnects, result \in LookupResults :
         (/\ next_event_dns(i, result)
          /\ ~result.ok) =>
            /\ nlast'.op = "next_event"
            /\ nlast'.res = "Ok"
            /\ nlast'.event.type = "DialFailure"
            /\ nlast'.event.address = pending_dns_resolves[i]
            /\ nlast'.event.error = "DnsAddressResolutionFailed"
            /\ chan' = chan
            /\ dials' = dials
            /\ connection_id' = connection_id
            /\ pending_connections' = pending_connections
      ]_vars

\* a failed lookup has just been reported, for an address with trailing segments
C14_Witness ==
    /\ nlast.op = "next_event"
    /\ ~nlast.lookup.ok
    /\ nlast.lookup.ips = <<>>
    /\ nlast.event.type = "DialFailure"
    /\ nlast.event.error = "DnsAddressResolutionFailed"
    /\ nlast.event.address = nlast.arg
    /\ Len(nlast.arg) = 3
    /\ dials = <<>>

\* C15: once next_event has yielded the ConnectionEstablished or DialFailure of a
\* dial, the Pending Dial map holds no entry for that dial.
C15_PendingDialRemovedOnOutcome ==
    [][(/\ next_event_rx
        /\ nlast'.event.type \in {"ConnectionEstablished", "DialFailure"}) =>
           nlast'.event.dial \notin DOMAIN pending_connections'
      ]_vars

\* the outcome of the only dial has been yielded, nothing is in flight, and the
\* Pending Dial of it is still there
C15_Witness ==
    /\ nlast.op = "next_event"
    /\ nlast.event.type \in {"ConnectionEstablished", "DialFailure"}
    /\ nlast.event.dial = 1
    /\ Len(dials) = 1
    /\ rx = <<>>
    /\ \A t \in SupportedTransport : chan[t] = <<>>
    /\ 1 \in DOMAIN pending_connections
    /\ pending_connections[1] = nlast.event.address

\* C16: the completion of a lookup removes its Pending Resolution (and no other), and
\* produces at most one outcome: one Dial command or one DialFailure event, never
\* both; a removed resolution cannot complete again.
C16_ResolutionCompletesOnce ==
    [][\A i \in 1..MaxConnects, result \in LookupResults :
         next_event_dns(i, result) =>
            /\ Len(pending_dns_resolves') = Len(pending_dns_resolves) - 1
            /\ \A k \in 1..Len(pending_dns_resolves') :
                  pending_dns_resolves'[k] = pending_dns_resolves[IF k < i THEN k ELSE k + 1]
            /\ Len(dials') - Len(dials) \in {0, 1}
            /\ \A t \in SupportedTransport : Len(chan'[t]) - Len(chan[t]) \in {0, 1}
            /\ ~(dials' # dials /\ nlast'.event.type = "DialFailure")
            /\ rx' = rx
      ]_vars

\* of two pending resolutions of the same address one has completed with a dial and
\* the other is still pending
C16_Witness ==
    /\ nlast.op = "next_event"
    /\ nlast.res = "Continue"
    /\ Len(pending_dns_resolves) = 1
    /\ pending_dns_resolves[1] = nlast.arg
    /\ Len(dials) = 1
    /\ dials[1].connection_id \in DOMAIN dns_origin
(***************************************************************************)
(* Properties of the Hub's reports.                                        *)
(***************************************************************************)
\* number of events of the given type in a sequence of events
Count(events, type) == Cardinality({k \in 1..Len(events) : events[k].type = type})

\* C17: once report_connection_established has returned Ok (its last step, the send
\* to the coordinator, is done), every registered protocol has been sent exactly one
\* ConnectionEstablished for the peer and address with a strong handle of this
\* connection, the ProtocolSet holds a weak handle only, and the coordinator has
\* been sent exactly one ConnectionEstablished; and the coordinator is only sent
\* it when every protocol has been.
C17_EstablishedReportedToAllThenCoordinator ==
    \A c \in Conns :
       (mgr_sent[c] # <<>> \/ hub[c].st = "established") =>
          /\ \A p \in Protocols :
                /\ Count(notified[c][p], "ConnectionEstablished") = 1
                /\ notified[c][p][1] = [type |-> "ConnectionEstablished",
                                        peer |-> hub[c].peer, address |-> c, sender |-> c]
          /\ hub[c].tx = "Inactive"
          /\ mgr_sent[c] # <<>> =>
                /\ Count(mgr_sent[c], "ConnectionEstablished") = 1
                /\ mgr_sent[c][1] = [type |-> "ConnectionEstablished",
                                     peer |-> hub[c].peer, address |-> c]

\* report_connection_established of the second connection has just returned Ok, and
\* the event with its strong handle is waiting in a protocol's channel
C17_Witness ==
    /\ last = HubCall("report_connection_established", "Ok")
    /\ hub[2].st = "open"
    /\ hub[2].tx = "Inactive"
    /\ mgr_sent[2] # <<>>
    /\ \E p \in Protocols : \E k \in 1..Len(evq[p]) :
          evq[p][k].type = "ConnectionEstablished" /\ evq[p][k].sender = 2

\* report_connection_closed has been called for connection c and has returned
ClosedReturned(c) ==
    /\ mgr_sent[c] # <<>>
    /\ hub[c].st \in {"closed", "failed", "dropped"}

\* C18: when report_connection_closed has returned, every registered protocol whose
\* task is running and that was told the connection was established has been sent
\* the ConnectionClosed of the peer, and so has the coordinator.
C18_ClosedReportedToAll ==
    \A c \in Conns :
       ClosedReturned(c) =>
          /\ \A p \in Protocols \ stopped :
                Count(notified[c][p], "ConnectionEstablished") > 0 =>
                   /\ Count(notified[c][p], "ConnectionClosed") = 1
                   /\ notified[c][p][Len(notified[c][p])] =
                         [type |-> "ConnectionClosed", peer |-> hub[c].peer]
          /\ Count(mgr_sent[c], "ConnectionClosed") = 1

\* the connection task is gone after a report_connection_closed that failed at the
\* first protocol; the second protocol still holds the connection Active, has no
\* event to read, and neither it nor the coordinator was told of the closure
C18_Witness ==
    /\ hub[1].st = "dropped"
    /\ stopped = {"ping"}
    /\ connections["identify"][hub[1].peer] = Active(1)
    /\ evq["identify"] = <<>>
    /\ Count(notified[1]["identify"], "ConnectionEstablished") = 1
    /\ Count(notified[1]["identify"], "ConnectionClosed") = 0
    /\ Count(mgr_sent[1], "ConnectionEstablished") = 1
    /\ Count(mgr_sent[1], "ConnectionClosed") = 0

\* the fields of ProtocolSet c and its channels are as before
HubUntouched(c) ==
    /\ hub'[c].tx = hub[c].tx
    /\ hub'[c].st = hub[c].st
    /\ hub'[c].todo = hub[c].todo
    /\ hub'[c].out = hub[c].out
    /\ hub'[c].none = hub[c].none
    /\ \A d \in Conns \ {c} : hub'[d] = hub[d]
    /\ cmdq' = cmdq
    /\ mgr_sent' = mgr_sent
    /\ next_substream_id' = next_substream_id
    /\ connections' = connections

\* C19: report_substream_open and report_substream_open_failure for a name that is
\* not registered return ProtocolNotSupported, put nothing in any protocol's channel
\* and leave the ProtocolSet as it was.
C19_UnregisteredNameIsRefused ==
    [][\A c \in Conns, n \in Names \ Protocols :
         /\ report_substream_open(c, n) =>
               /\ last' = [op |-> "report_substream_open", was |-> "",
                           res |-> "ProtocolNotSupported"]
               /\ evq' = evq
               /\ HubUntouched(c)
         /\ report_substream_open_failure(c, n) =>
               /\ last' = [op |-> "report_substream_open_failure", was |-> "",
                           res |-> "ProtocolNotSupported"]
               /\ evq' = evq
               /\ HubUntouched(c)
      ]_vars

\* a report for an unregistered name has just been refused while both protocols have
\* room in their channels
C19_Witness ==
    /\ last.res = "ProtocolNotSupported"
    /\ last.op \in {"report_substream_open", "report_substream_open_failure"}
    /\ \A p \in Protocols : evq[p] = <<>>
    /\ \E c \in Conns : hub[c].st = "open" /\ hub[c].cur = NoCommand

\* exactly `event` was put in the channel of protocol n, and nothing anywhere else
DeliveredOnlyTo(n, event) ==
    /\ evq'[n] = Append(evq[n], event)
    /\ \A q \in Protocols \ {n} : evq'[q] = evq[q]
    /\ mgr_sent' = mgr_sent

\* the report waits for room in the channel of protocol n, holding `event`
WaitsFor(c, n, event) ==
    /\ Len(evq[n]) >= limits.events
    /\ evq' = evq
    /\ hub'[c].st = "sub_send"
    /\ hub'[c].out.to = n
    /\ hub'[c].out.event = event

Queued(c, p, type) ==
    \E k \in 1..Len(evq[p]) : origin[p][k] = c /\ evq[p][k].type = type

\* p's next_event has yielded the connection event of the given type of connection
\* c: it was sent and it is in the channel no more
Yielded(c, p, type) ==
    /\ Count(notified[c][p], type) > 0
    /\ ~Queued(c, p, type)

\* C21: a view's next_event yields the events of one connection in the order the
\* ProtocolSet reported them: a SubstreamOpened or SubstreamOpenFailure only after
\* the connection's ConnectionEstablished and before its ConnectionClosed, and its
\* ConnectionClosed only after its ConnectionEstablished, whatever other
\* connections put in the same channel.
C21_ConnectionEventsYieldedInOrder ==
    [][\A p \in Protocols :
         view_next_event(p) =>
            \A c \in Conns :
               origin[p][1] = c =>
                  /\ last'.res = "ConnectionEstablished" =>
                        /\ ~Yielded(c, p, "ConnectionEstablished")
                        /\ ~Yielded(c, p, "ConnectionClosed")
                  /\ last'.res \in {"SubstreamOpened", "SubstreamOpenFailure"} =>
                        /\ Yielded(c, p, "ConnectionEstablished")
                        /\ ~Yielded(c, p, "ConnectionClosed")
                  /\ last'.res = "ConnectionClosed" =>
                        /\ Yielded(c, p, "ConnectionEstablished")
                        /\ \A k \in 2..Len(evq[p]) : origin[p][k] # c
      ]_vars

\* ping has just been yielded a substream event while two connections are open and
\* it has been yielded the ConnectionEstablished of both
C21_Witness ==
    /\ last.op = "view_next_event"
    /\ last.res \in {"SubstreamOpened", "SubstreamOpenFailure"}
    /\ hub[1].st = "open"
    /\ hub[2].st = "open"
    /\ Yielded(1, "ping", "ConnectionEstablished")
    /\ Yielded(2, "ping", "ConnectionEstablished")
    /\ evq["ping"] = <<>>
\* p's next_event consumes an event of the given type about the peer
Consumes(p, type, peer) ==
    /\ view_next_event(p)
    /\ Recv(evq[p]).type = type
    /\ Recv(evq[p]).peer = peer

\* C22: a view's entry for a peer is absent until next_event consumes a
\* ConnectionEstablished for the peer, Active right after consuming one, absent right
\* after consuming a ConnectionClosed for the peer and removed by nothing else; it
\* goes from Active to Inactive only by the view's disconnect; a substream event
\* changes no entry.
C22_ActivityStateMachine ==
    [][\A p \in Protocols :
         /\ \A peer \in Peers :
              /\ Consumes(p, "ConnectionEstablished", peer) =>
                    connections'[p][peer].kind = "Active"
              /\ Consumes(p, "ConnectionClosed", peer) =>
                    connections'[p][peer] = NoConnection
              /\ (connections[p][peer].kind = "None" /\ connections'[p][peer].kind # "None") =>
                    Consumes(p, "ConnectionEstablished", peer)
              /\ (connections[p][peer].kind # "None" /\ connections'[p][peer].kind = "None") =>
                    Consumes(p, "ConnectionClosed", peer)
              /\ (connections[p][peer].kind = "Active" /\ connections'[p][peer].kind = "Inactive") =>
                    disconnect(p, peer)
         /\ (/\ view_next_event(p)
             /\ Recv(evq[p]).type \in {"SubstreamOpened", "SubstreamOpenFailure"}) =>
               connections' = connections
      ]_vars

\* ping has just consumed the ConnectionClosed of peerA and has no entry for it,
\* while identify, which has not consumed it yet, still holds the peer Active
C22_Witness ==
    /\ last = ViewCall("view_next_event", "", "ConnectionClosed")
    /\ connections["ping"]["peerA"] = NoConnection
    /\ connections["identify"]["peerA"].kind = "Active"
    /\ Yielded(1, "ping", "ConnectionClosed")
    /\ ~Yielded(1, "identify", "ConnectionClosed")
(***************************************************************************)
(* Idle teardown.                                                          *)
(***************************************************************************)
\* connection c has been reported established, and every protocol has consumed its
\* ConnectionEstablished and then disconnected: each view holds the weak handle of c
\* for the peer, and no open_substream is under way
AllDisconnected(c) ==
    /\ hub[c].st = "open"
    /\ \A p \in Protocols :
          /\ connections[p][hub[c].peer] = Inactive(c)
          /\ viewpc[p].st = "idle"

\* C23, as stated: once connection c has been reported established and every
\* protocol has called disconnect for its peer, no strong handle of c is left. Here
\* p is the last protocol to call disconnect; the others hold c Inactive already.
C23_Original ==
    [][\A c \in Conns, p \in Protocols :
         (/\ disconnect(p, hub[c].peer)
          /\ hub[c].st = "open"
          /\ \A q \in Protocols \ {p} : connections[q][hub[c].peer] = Inactive(c)
          /\ \A q \in Protocols : viewpc[q].st = "idle") =>
            ~HasStrong(c)'
      ]_vars

\* C23: once connection c has been reported established and every protocol, having
\* consumed the ConnectionEstablished of c, has disconnected from its peer and has
\* not opened a substream since, no strong handle of c's command channel is left;
\* the ProtocolSet's next_event then yields the commands still queued, oldest
\* first, and returns None when there is none.
C23_NoStrongHandleOnceAllDisconnected ==
    /\ [](\A c \in Conns : AllDisconnected(c) => ~HasStrong(c))
    /\ [][\A c \in Conns :
            (hub_next_event(c) /\ AllDisconnected(c)) =>
               IF cmdq[c] # <<>>
               THEN /\ hub'[c].cur = Head(cmdq[c])
                    /\ cmdq'[c] = Tail(cmdq[c])
                    /\ hub'[c].none = hub[c].none
               ELSE /\ hub'[c].none
                    /\ hub'[c].cur = NoCommand
         ]_vars

\* every protocol has disconnected from the peer of connection 1, whose ProtocolSet
\* has just been told None by next_event, having yielded a command before
C23_Witness ==
    /\ AllDisconnected(1)
    /\ last = HubCall("hub_next_event", "None")
    /\ hub[1].none
    /\ issued # <<>>
    /\ cmdq[1] = <<>>
\* C24: a view never yields a ConnectionEstablished for a peer it already holds a
\* connection to, that is, for which it has yielded a ConnectionEstablished and no
\* ConnectionClosed since, even while the peer has two live connections.
C24_OneLogicalConnectionPerPeer ==
    [][\A p \in Protocols, peer \in Peers :
         Consumes(p, "ConnectionEstablished", peer) => connections[p][peer] = NoConnection
      ]_vars

\* two connections to peerA are open and none has been closed; ping has been
\* yielded the ConnectionEstablished of both, the second one just now
C24_Witness ==
    /\ last = ViewCall("view_next_event", "", "ConnectionEstablished")
    /\ hub[1].st = "open" /\ hub[1].peer = "peerA"
    /\ hub[2].st = "open" /\ hub[2].peer = "peerA"
    /\ Yielded(1, "ping", "ConnectionEstablished")
    /\ Yielded(2, "ping", "ConnectionEstablished")
    /\ Count(notified[1]["ping"], "ConnectionClosed") = 0
    /\ Count(notified[2]["ping"], "ConnectionClosed") = 0
    /\ connections["ping"]["peerA"] = Active(2)
(***************************************************************************)
(* Properties of the coordinator's construction, checked under SpecNew.    *)
(***************************************************************************)
\* the node returned has one listen address for each enabled transport
OneAddressPerTransport(enabled) ==
    /\ nlast'.res = "Ok"
    /\ Len(listen_addresses') = Cardinality(enabled)
    /\ {listen_addresses'[k].listener : k \in 1..Len(listen_addresses')} = enabled
    /\ transports' = enabled

WellLayered(address) ==
    /\ Len(address) >= 2
    /\ IsIp(address[1]) \/ IsDns(address[1])
    /\ \/ address[2].proto = "tcp"
       \/ /\ address[2].proto = "udp"
          /\ Len(address) >= 3
          /\ address[3].proto = "quic-v1"

\* C26: connect rejects every address whose layering is not supported with
\* TransportNotSupported, without dialling and without starting a resolution, and
\* no Dial command ever carries such an address, DNS names included.
C26_MalformedAddressNeverDialled ==
    /\ [][\A address \in Addresses :
            (connect(address) /\ ~WellLayered(address)) =>
               /\ nlast'.res = "TransportNotSupported"
               /\ dials' = dials
               /\ pending_dns_resolves' = pending_dns_resolves
         ]_vars
    /\ [](\A k \in 1..Len(dials) : WellLayered(dials[k].address))

\* a Dial command for an address that is only an IP address has been sent to the
\* TCP transport, after connect was given a DNS name with nothing behind it
C26_Witness ==
    \E k \in 1..Len(dials) :
       /\ dials[k].to = "Tcp"
       /\ Len(dials[k].address) = 1
       /\ IsIp(dials[k].address[1])
       /\ dials[k].connection_id \in DOMAIN dns_origin
       /\ dns_origin[dials[k].connection_id] = <<Seg("dns", 0)>>
\* C27: next_event returns ConnectionEstablished and DialFailure only. It takes the
\* transport events in the order they were delivered, each once; one of these two
\* kinds is returned with its peer, address and error as delivered, and one of any
\* other kind is dropped while the call goes on, with no event returned for it.
C27_TransportEventsReturnedOnceInOrder ==
    [][/\ next_event_rx =>
            /\ rx' = Tail(rx)
            /\ IF Head(rx).type \in {"ConnectionEstablished", "DialFailure"}
               THEN /\ nlast'.res = "Ok"
                    /\ nlast'.event = Head(rx)
               ELSE /\ nlast'.res = "Continue"
                    /\ nlast'.event = NoEvent
       /\ (nlast'.op = "next_event" /\ nlast'.res = "Ok") =>
            nlast'.event.type \in {"ConnectionEstablished", "DialFailure"}
       /\ (rx' # rx /\ ~next_event_rx) =>
            (Len(rx') = Len(rx) + 1 /\ SubSeq(rx', 1, Len(rx)) = rx)
      ]_vars

\* next_event has just dropped a ConnectionClosed of a transport and goes on, with
\* another transport event waiting behind it
C27_Witness ==
    /\ nlast = NodeCall("next_event", <<>>, NoLookup, "Continue", NoEvent, <<>>)
    /\ rx # <<>>
    /\ Head(rx).type = "DialFailure"
(***************************************************************************)
(* Properties of a node that dials and is dialled, checked under SpecPair. *)
(***************************************************************************)
\* the connections a node has a part in: the dials it made, by ConnectionId, and
\* the connections its listener accepted, by negated number
ConnectionsOfNode == ((-MaxInbound)..(-1)) \cup (1..MaxConnects)

\* the transport still holds the Dial command d, or its event about connection d
\* waits in the coordinator's channel
Outstanding(d) ==
    \/ \E t \in SupportedTransport : \E k \in 1..Len(chan[t]) : chan[t][k].connection_id = d
    \/ \E k \in 1..Len(rx) : rx[k].dial = d

\* the coordinator's next_event has returned the outcome of connection d
Returned(d) ==
    /\ IF d > 0
       THEN \E k \in 1..Len(dials) : dials[k].connection_id = d
       ELSE -d <= inbound
    /\ ~Outstanding(d)

\* C28: on the node that dialled and on the node that was dialled, next_event
\* returns the ConnectionEstablished the transport reported for the connection,
\* once and never again, and the public stream carries no event other than
\* ConnectionEstablished and DialFailure, so none derived from a substream.
C28_BothEndsYieldEstablishedOnce ==
    [][/\ \A d \in ConnectionsOfNode :
            /\ (/\ next_event_rx
                /\ Head(rx).dial = d
                /\ Head(rx).type = "ConnectionEstablished") =>
                  /\ nlast'.res = "Ok"
                  /\ nlast'.event = Head(rx)
                  /\ ~Returned(d)
                  /\ Returned(d)'
            /\ Returned(d) => Returned(d)'
       /\ (nlast'.op = "next_event" /\ nlast'.res = "Ok") =>
            nlast'.event.type \in {"ConnectionEstablished", "DialFailure"}
      ]_vars

\* the node has dialled a TCP address and has been dialled; next_event has returned
\* the ConnectionEstablished of both connections, the accepted one last
C28_Witness ==
    /\ Returned(1)
    /\ Returned(-1)
    /\ established["Tcp"] = 2
    /\ dials = <<[to |-> "Tcp", address |-> <<Ip6(1), Tcp, P2p>>, connection_id |-> 1]>>
    /\ nlast.op = "next_event"
    /\ nlast.event.type = "ConnectionEstablished"
    /\ nlast.event.address = RemoteAddress
\* the places where the outcome of dial d is waiting
OutstandingItems(d) ==
    {<<t, k>> \in SupportedTransport \X (1..DialChannelBound) :
         k <= Len(chan[t]) /\ chan[t][k].connection_id = d}
    \cup {<<"rx", k>> : k \in {j \in 1..Len(rx) : rx[j].dial = d}}

\* C29: when the transport reports a dial as failed, next_event returns a
\* DialFailure with the address that was dialled and the transport's error, and
\* neither before nor after it a ConnectionEstablished of that dial: each dial has one
\* outcome, which is returned once.
C29_FailedDialYieldsDialFailureOnly ==
    [][\A d \in 1..MaxConnects :
         /\ (/\ next_event_rx
             /\ Head(rx).dial = d
             /\ Head(rx).type = "DialFailure") =>
               /\ nlast'.res = "Ok"
               /\ nlast'.event.type = "DialFailure"
               /\ nlast'.event.error = Head(rx).error
               /\ \E k \in 1..Len(dials) :
                     /\ dials[k].connection_id = d
                     /\ dials[k].address = nlast'.event.address
               /\ ~Returned(d)
               /\ Returned(d)'
         /\ Returned(d) => Returned(d)'
         /\ Cardinality(OutstandingItems(d)) <= 1
      ]_vars

\* next_event has just returned the DialFailure of the only dial made, for the
\* address given to connect; no connection was ever established
C29_Witness ==
    /\ nlast.op = "next_event"
    /\ nlast.event = TransportEvent("DialFailure", <<Ip4(1), Tcp>>, "Refused", 1)
    /\ Returned(1)
    /\ Len(dials) = 1
    /\ connection_id = 1
    /\ \A t \in SupportedTransport : established[t] = 0
    /\ rx = <<>>
(***************************************************************************)
(* Properties of the command channel, checked under Spec.                  *)
(***************************************************************************)
\* the ProtocolSet's next_event yields the oldest command of the channel
YieldsOldest(c) ==
    /\ hub_next_event(c)
    /\ cmdq[c] # <<>>
    /\ hub'[c].cur = Head(cmdq[c])
    /\ cmdq'[c] = Tail(cmdq[c])
    /\ hub'[c].none = hub[c].none

\* an open_substream of some protocol puts its command at the end of the channel:
\* the command bears the protocol's name and the SubstreamId allocated to it
Enqueues(c) ==
    /\ Len(cmdq'[c]) = Len(cmdq[c]) + 1
    /\ SubSeq(cmdq'[c], 1, Len(cmdq[c])) = cmdq[c]
    /\ LET cmd == cmdq'[c][Len(cmdq'[c])] IN
       /\ last' = ViewCall("open_substream", last'.was, "Ok")
       /\ \E k \in 1..Len(issued') : issued'[k] = [id |-> cmd.substream_id, by |-> cmd.protocol]
       /\ \A k \in 1..Len(cmdq[c]) : cmdq[c][k].substream_id # cmd.substream_id

\* C30, as stated: a command leaves the channel only by being yielded by the
\* ProtocolSet's next_event, oldest first, so every command enqueued is yielded.
C30_Original ==
    [][\A c \in Conns :
         cmdq'[c] # cmdq[c] => (Enqueues(c) \/ YieldsOldest(c))
      ]_vars

\* C30: while the connection's ProtocolSet exists, every command open_substream
\* enqueued stays in the channel, whatever happens to the handles, until the
\* ProtocolSet's next_event yields it; next_event yields the commands oldest
\* first, each once, with the requesting protocol's name and the SubstreamId
\* allocated to the request, and returns None only with an empty channel and no
\* strong handle left. The commands still queued when the connection task drops
\* the ProtocolSet are discarded.
C30_CommandsYieldedOnceInOrder ==
    [][\A c \in Conns :
         /\ cmdq'[c] # cmdq[c] =>
               \/ Enqueues(c)
               \/ YieldsOldest(c)
               \/ drop_protocol_set(c)
         /\ hub_next_event(c) =>
               IF cmdq[c] # <<>>
               THEN YieldsOldest(c)
               ELSE /\ ~HasStrong(c)
                    /\ hub'[c].none
                    /\ hub'[c].cur = NoCommand
      ]_vars

\* the ProtocolSet of connection 1 has been yielded a command and another one is
\* still queued for it, while no strong handle of the channel is left
C30_Witness ==
    /\ hub[1].st = "open"
    /\ hub[1].cur # NoCommand
    /\ Len(cmdq[1]) = 1
    /\ cmdq[1][1].substream_id > hub[1].cur.substream_id
    /\ ~HasStrong(1)

(***************************************************************************)
(* The depths of the channels, checked under SpecDepth: a run is either    *)
(* one of the multiplexing layer, with a command channel deeper than the   *)
(* event channels as in the source, or one of a coordinator with one       *)
(* transport.                                                              *)
(***************************************************************************)
\* lib.rs: the capacity of the protocols' event channels, of the transports'
\* command channels and of the coordinator's event channel
DEFAULT_CHANNEL_SIZE == 64
\* the capacity given to channel() in ProtocolSet::new
CommandChannelSize == 256

\* the depth the model gives a channel of the given capacity: the depths keep the
\* order of the capacities, not their proportion
DepthOf(size) == IF size <= DEFAULT_CHANNEL_SIZE THEN 1 ELSE 2

\* one connection whose command channel can be filled
DepthScenario ==
    [conns |-> 1, ids |-> DepthOf(CommandChannelSize) + 1,
     events |-> DepthOf(DEFAULT_CHANNEL_SIZE), commands |-> DepthOf(CommandChannelSize)]

InitDepth ==
    /\ HubInit
    /\ \/ /\ limits = DepthScenario
          /\ transports = {}
          /\ listen_addresses = <<>>
          /\ chan = [t \in SupportedTransport |-> <<>>]
          /\ connection_id = 0
          /\ pending_connections = <<>>
          /\ pending_dns_resolves = <<>>
          /\ rx = <<>>
          /\ established = [t \in SupportedTransport |-> 0]
          /\ inbound = 0
          /\ alive = {}
          /\ connects = 0
          /\ dials = <<>>
          /\ dns_origin = <<>>
          /\ nlast = NotConstructed
       \/ /\ limits = [conns |-> 0, ids |-> 0, events |-> 0, commands |-> 0]
          /\ Litep2pNew({"Tcp"})

NextDepth ==
    \/ Next
    \/ NextNode

SpecDepth == InitDepth /\ [][NextDepth]_vars

\* no channel holds more than its depth
WithinDepth ==
    /\ \A p \in Protocols : Len(evq[p]) <= limits.events
    /\ \A c \in Conns : Len(cmdq[c]) <= limits.commands
    /\ \A t \in SupportedTransport : Len(chan[t]) <= DialChannelBound
    /\ Len(rx) <= DialChannelBound

\* a step leaves the queue as it was, takes its oldest message or adds one at its end
InOrder(q, r) ==
    \/ r = q
    \/ q # <<>> /\ r = Tail(q)
    \/ Len(r) = Len(q) + 1 /\ SubSeq(r, 1, Len(q)) = q

\* C31, as stated: no channel holds more messages than the one default depth, the
\* connection's command channel included.
C31_Original ==
    /\ \A p \in Protocols : Len(evq[p]) <= limits.events
    /\ \A c \in Conns : Len(cmdq[c]) <= limits.events
    /\ \A t \in SupportedTransport : Len(chan[t]) <= DialChannelBound
    /\ Len(rx) <= DialChannelBound

\* C31: no channel ever holds more messages than its own depth, which is the default
\* one for a protocol's event channel, a transport's command channel and the
\* coordinator's event channel and a larger one for a connection's command channel;
\* a send on a full channel suspends the sender with its message, the queue is left
\* as it is, and the message is added at the end once there is room: nothing is
\* dropped or reordered while the receiver exists.
C31_ChannelsBoundedByTheirDepth ==
    /\ []WithinDepth
    /\ [][ /\ \A p \in Protocols : InOrder(evq[p], evq'[p])
           /\ \A c \in Conns : hub'[c].st # "dropped" => InOrder(cmdq[c], cmdq'[c])
           /\ \A t \in SupportedTransport : InOrder(chan[t], chan'[t])
           /\ InOrder(rx, rx')
           /\ \A p \in Protocols :
                 /\ (viewpc[p].st = "idle" /\ viewpc'[p].st = "sending") =>
                       /\ Len(cmdq[viewpc'[p].conn]) = limits.commands
                       /\ cmdq' = cmdq
                       /\ viewpc'[p].cmd = OpenSubstreamCmd(p, next_substream_id)
                 /\ (viewpc[p].st = "sending" /\ viewpc'[p].st = "idle") =>
                       \/ RxDropped(viewpc[p].conn)
                       \/ cmdq'[viewpc[p].conn] =
                             Append(cmdq[viewpc[p].conn], viewpc[p].cmd)
                 /\ (issued' = Append(issued, [id |-> next_substream_id, by |-> p])
                     /\ last'.res = "Ok") =>
                       \E c \in Conns :
                          cmdq'[c] = Append(cmdq[c], OpenSubstreamCmd(p, next_substream_id))
           /\ \A c \in Conns :
                 /\ (hub[c].st # "sub_send" /\ hub'[c].st = "sub_send") =>
                       /\ Len(evq[hub'[c].out.to]) = limits.events
                       /\ evq' = evq
                 /\ (hub[c].st = "sub_send" /\ hub'[c].st # "sub_send") =>
                       evq'[hub[c].out.to] = Append(evq[hub[c].out.to], hub[c].out.event)
         ]_vars

\* a protocol task is suspended in open_substream on a command channel that holds
\* more messages than an event channel can
C31_Witness ==
    \E p \in Protocols :
       /\ viewpc[p].st = "sending"
       /\ Len(cmdq[viewpc[p].conn]) = limits.commands
       /\ limits.commands > limits.events

(***************************************************************************)
(* Properties of a coordinator whose transport tasks may end, checked      *)
(* under SpecExit.                                                         *)
(***************************************************************************)
\* C32: once the coordinator's event channel is empty and every Sender of it is gone,
\* the rx branch of next_event panics: the call returns no event and no error, the
\* closure is never returned as a DialFailure (a DialFailure is an event taken from
\* the channel or the outcome of a resolution), and no call returns anything after
\* the panic.
C32_ClosedChannelPanics ==
    [][ /\ (rx = <<>> /\ alive = {} /\ nlast' # nlast /\ nlast'.op = "next_event"
            /\ nlast'.lookup = NoLookup) =>
              (nlast'.res = "Panic" /\ nlast'.event = NoEvent)
        /\ (nlast' # nlast /\ nlast'.event.type = "DialFailure") =>
              \/ nlast'.lookup # NoLookup
              \/ rx # <<>> /\ nlast'.event = Head(rx)
        /\ nlast.res = "Panic" => nlast' = nlast
      ]_vars

\* next_event has panicked while a dial it had sent was without outcome
C32_Witness ==
    /\ nlast = TransportFailed
    /\ alive = {}
    /\ dials # <<>>
    /\ pending_connections # <<>>

\* C39: a resolution that next_event takes out of the pending ones is never consumed
\* without an outcome: the step sends a Dial command on a transport's channel or
\* returns a DialFailure event; a dial that cannot be sent after the resolution is
\* returned as a DialFailure, not as an error of next_event.
C39_ResolutionHasOutcome ==
    [][\A i \in 1..MaxConnects, result \in LookupResults :
         next_event_dns(i, result) =>
            /\ \/ Len(dials') = Len(dials) + 1
               \/ nlast'.event.type = "DialFailure"
            /\ nlast'.res \in {"Ok", "Continue"}
      ]_vars

\* the only request of the run, a connect to a DNS name that returned Ok, is gone
\* from the pending resolutions: the name resolved, the TCP transport's task had
\* ended, next_event returned an error, and there is neither a Dial command nor a
\* DialFailure
C39_Witness ==
    /\ connects = 1
    /\ pending_dns_resolves = <<>>
    /\ nlast.op = "next_event"
    /\ nlast.lookup.ok
    /\ IsDns(nlast.arg[1])
    /\ nlast.res = "ChannelClosed"
    /\ nlast.event = NoEvent
    /\ "Tcp" \in transports
    /\ dials = <<>>
    /\ rx = <<>>

(***************************************************************************)
(* Further properties of the multiplexing layer, checked under Spec.       *)
(***************************************************************************)
\* p has been yielded the ConnectionEstablished of connection c and not yet its
\* ConnectionClosed
HeldBy(c, p) ==
    /\ Yielded(c, p, "ConnectionEstablished")
    /\ ~Yielded(c, p, "ConnectionClosed")

\* C33: open_substream for a peer does not fail with PeerDoesntExist while the view
\* has consumed the ConnectionEstablished of some connection to that peer and not
\* yet the ConnectionClosed of that connection, also when two connections to the
\* peer overlap and the close of the older one has been consumed.
C33_KnownWhileConnectionHeld ==
    [][\A p \in Protocols, peer \in Peers :
         (open_substream(p, peer) /\ last'.res = "PeerDoesntExist") =>
            ~\E c \in Conns : hub[c].st # "none" /\ hub[c].peer = peer /\ HeldBy(c, p)
      ]_vars

\* ping's open_substream for peerA has just failed with PeerDoesntExist although the
\* second connection to peerA is open, ping has been yielded its ConnectionEstablished
\* and no ConnectionClosed has been sent for it
C33_Witness ==
    /\ last = ViewCall("open_substream", "None", "PeerDoesntExist")
    /\ connections["ping"]["peerA"] = NoConnection
    /\ hub[2].st = "open"
    /\ hub[2].peer = "peerA"
    /\ HeldBy(2, "ping")
    /\ Count(notified[2]["ping"], "ConnectionClosed") = 0
    /\ Yielded(1, "ping", "ConnectionClosed")

\* C35: the Hub's next_event of a connection does not return None before the Hub has
\* completed report_connection_established, nor while a ConnectionEstablished of
\* that connection is still queued in some protocol's event channel: the Hub's own
\* strong handle and the one inside each queued notification keep the command
\* channel open.
C35_NotClosedBeforeReportNorWhileQueued ==
    /\ [](\A c \in Conns :
            (hub[c].tx = "Active" \/ Queued(c, "ping", "ConnectionEstablished")
                                  \/ Queued(c, "identify", "ConnectionEstablished")) =>
               ~hub[c].none)
    /\ [][\A c \in Conns :
            (hub_next_event(c) /\ hub'[c].none) =>
               /\ hub[c].st = "open"
               /\ mgr_sent[c] # <<>>
               /\ \A p \in Protocols :
                     /\ Count(notified[c][p], "ConnectionEstablished") = 1
                     /\ ~Queued(c, p, "ConnectionEstablished")
         ]_vars

\* the Hub's next_event has returned None for a connection whose ConnectionEstablished
\* every protocol has consumed, while the connection is still open
C35_Witness ==
    /\ hub[1].none
    /\ hub[1].st = "open"
    /\ last = HubCall("hub_next_event", "None")
    /\ \A p \in Protocols : Yielded(1, p, "ConnectionEstablished")

\* the errors open_substream returns
OpenSubstreamErrors == {"PeerDoesntExist", "Disconnected", "ChannelClosed"}

\* C37: when open_substream returns an error, the view's entry for the peer is what
\* it was before the call: a failed call never turns an Inactive entry into an
\* Active one.
C37_FailedOpenSubstreamLeavesEntry ==
    [][\A p \in Protocols, peer \in Peers :
         (/\ \/ open_substream(p, peer)
             \/ open_substream_resume(p) /\ viewpc[p].peer = peer
          /\ last'.res \in OpenSubstreamErrors) =>
            connections'[p][peer] = connections[p][peer]
      ]_vars

\* ping's open_substream on an Inactive entry has just failed because the connection
\* task is gone, and has left the entry Active
C37_Witness ==
    /\ last = ViewCall("open_substream", "Inactive", "ChannelClosed")
    /\ RxDropped(1)
    /\ viewpc["ping"].st = "idle"
    /\ connections["ping"]["peerA"] = Active(1)
    /\ connections["identify"]["peerA"].kind # "Active"
    /\ \E k \in 1..Len(issued) : issued[k].by = "ping"

(***************************************************************************)
(* Backpressure in both directions, checked under SpecWait: one            *)
(* connection, the shortest channels and enough substream ids to fill      *)
(* both of them.                                                           *)
(***************************************************************************)
WaitScenario == [conns |-> 1, ids |-> MaxSubstreamId + 1, events |-> 1, commands |-> 1]

InitWait ==
    /\ limits = WaitScenario
    /\ HubInit
    /\ Litep2pNew({"Tcp"})

SpecWait == InitWait /\ [][Next]_vars

\* the task of connection c is suspended in a report_substream_* call on the full
\* event channel of protocol p, whose task is suspended in open_substream on the
\* full command channel of c
CircularWait(c, p) ==
    /\ hub[c].st = "sub_send"
    /\ hub[c].out.to = p
    /\ Len(evq[p]) >= limits.events
    /\ viewpc[p].st = "sending"
    /\ viewpc[p].conn = c
    /\ ~RxDropped(c)
    /\ Len(cmdq[c]) >= limits.commands

\* C34: no reachable state is a circular backpressure wait between a connection
\* task and a protocol task.
C34_NoCircularWait ==
    \A c \in Conns, p \in Protocols : ~CircularWait(c, p)

\* the connection task waits for room in ping's event channel to report the outcome
\* of ping's second command, and ping waits for room in the connection's command
\* channel to send its fourth
C34_Witness ==
    /\ CircularWait(1, "ping")
    /\ hub[1].out.event.type \in {"SubstreamOpened", "SubstreamOpenFailure"}
    /\ hub[1].out.event.substream = 1
    /\ viewpc["ping"].cmd = OpenSubstreamCmd("ping", 3)
    /\ ~ENABLED substream_send_resume(1)
    /\ ~ENABLED open_substream_resume("ping")
    /\ ~ENABLED view_next_event("ping")
    /\ ~ENABLED hub_next_event(1)

(***************************************************************************)
(* Further properties of the multiplexing layer with protocol tasks that   *)
(* may end, checked under SpecStop.                                        *)
(***************************************************************************)
\* the report of connection c that was under way has just returned an error
ReportFails(c, op) ==
    /\ hub[c].st # "failed"
    /\ hub'[c].st = "failed"
    /\ last' = HubCall(op, "ChannelClosed")

\* C36: when report_connection_established or report_connection_closed returns an
\* error, no protocol's event channel has received the notification of that call.
C36_ReportsAllOrNothing ==
    [][\A c \in Conns :
         /\ ReportFails(c, "report_connection_established") =>
               \A p \in Protocols : Count(notified'[c][p], "ConnectionEstablished") = 0
         /\ ReportFails(c, "report_connection_closed") =>
               \A p \in Protocols : Count(notified'[c][p], "ConnectionClosed") = 0
      ]_vars

\* report_connection_closed has returned an error because identify's task has ended,
\* after its ConnectionClosed went into the event channel of ping, which is running
C36_Witness ==
    /\ hub[1].st = "failed"
    /\ last = HubCall("report_connection_closed", "ChannelClosed")
    /\ "ping" \notin stopped
    /\ "identify" \in stopped
    /\ Count(notified[1]["ping"], "ConnectionClosed") = 1
    /\ Count(notified[1]["identify"], "ConnectionClosed") = 0
    /\ Queued(1, "ping", "ConnectionClosed")

(***************************************************************************)
(* Further properties of the coordinator, checked under SpecNode.          *)
(***************************************************************************)
\* C38: a connect that returns an error leaves pending_connections, the resolutions
\* under way and the ConnectionId allocator as they were: a failed connect consumes
\* no ConnectionId.
C38_FailedConnectChangesNothing ==
    [][\A address \in Addresses :
         (connect(address) /\ nlast'.res # "Ok") =>
            /\ pending_connections' = pending_connections
            /\ pending_dns_resolves' = pending_dns_resolves
            /\ connection_id' = connection_id
      ]_vars

\* the only call so far is a connect to a TCP address on a node without the TCP
\* transport: it has returned an error, no Dial command was sent, and the allocator
\* has moved
C38_Witness ==
    /\ connects = 1
    /\ nlast.op = "connect"
    /\ nlast.arg = <<Ip4(1), Tcp>>
    /\ nlast.res = "TransportNotSupported"
    /\ "Tcp" \notin transports
    /\ dials = <<>>
    /\ pending_connections = <<>>
    /\ connection_id = ConnectionIdNext(0)

(***************************************************************************)
(* The conversion of a ProtocolName to a string, checked under SpecName.   *)
(***************************************************************************)
\* C40: converting a ProtocolName to a string, from Libp2pProtocol::to_string or
\* from NotificationProtocol::to_string, terminates and yields the protocol's static
\* name.
C40_ToStringYieldsName ==
    \A caller \in NameCallers, name \in ProtocolNames :
       (name_fmt.caller = caller /\ name_fmt.name = name /\ name_fmt.out = "running")
          ~> (name_fmt.out = name)

\* Libp2pProtocol::to_string of the ping protocol has ended in a stack overflow, with
\* every frame of the stack taken by Display::fmt
C40_Witness ==
    /\ name_fmt.caller = "Libp2pProtocol"
    /\ name_fmt.name = "/ipfs/ping/1.0.0"
    /\ name_fmt.frames = MaxFrames
    /\ name_fmt.out = "StackOverflow"
====
